---- MODULE Spec2Model ----
(***************************************************************************)
(* State-machine model of the signal copier's core: the position store     *)
(* (bot/src/tania_signal_copier/state.py, models.py), the strategy         *)
(* (strategy.py) and the coordinator's handlers (bot.py).  Each telegram   *)
(* event (new message or message edit) is one action that runs the whole   *)
(* handler, trailing state.save() (with its eviction) included.  The       *)
(* broker is the environment: every gateway call's answer is chosen        *)
(* nondeterministically among the answers the gateway can give.            *)
(*                                                                         *)
(* Prices and times are small integers.  Python's None is modelled by      *)
(* None (0) for optional prices and ids, and by the empty sequence for an  *)
(* optional leg slot; no real price, ticket or message id is 0.            *)
(***************************************************************************)
EXTENDS Integers, Sequences, FiniteSets, TLC

\* ------------------------------------------------------------------ bounds

\* Number of clock units the model runs for; a new message takes one unit.
MaxTime == 3

\* Number of tickets the broker hands out.
MaxTickets == 4

\* Depth at which the interpreter gives up a chain of nested handler calls
\* (RecursionError); any finite depth gives the same outcome.
MaxDepth == 3

\* Edit events delivered in a run.
MaxEdits == 2

\* Handlings in a run during which the gateway refuses or fails a call.
MaxFailures == 1

\* ------------------------------------------------------- program constants

None == 0

\* BotState.MAX_RECORDS, scaled down so that eviction happens in the model.
MAX_RECORDS == 2

\* TradingConfig.edit_window_seconds, scaled down to clock units.
edit_window_seconds == 1

\* --------------------------------------------------------- input domains

Symbols == {"XAUUSDb"}
OrderTypes == {"buy", "sell"}
\* The price every order fills at (result["price"] / price_open).
FillPrice == 5
\* The SL and TPs a provider posts together: a buy set-up around the fill
\* price, or a sell set-up.
Levels == {<<4, <<6, 7>>>>, <<6, <<4, 3>>>>}
\* TP-hit numbers a profit notification can carry (None: no number).
TpNumbers == {None, 1, 2}
\* Volume an order fills at, in lot steps.
FillVolume == 2

MsgIds == 1..MaxTime

MessageTypes ==
    {"new_signal_complete", "new_signal_incomplete", "modification", "re_entry",
     "profit_notification", "close_signal", "partial_close", "compound_action",
     "not_trading"}


VARIABLES
    state,                     \* BotState: positions, ticket_to_msg_id, last_signal_msg_id
    pending_timeouts,          \* keys of TelegramMT5Bot._pending_timeouts
    timeout_tasks,             \* per msg_id, the tasks of _start_timeout still asleep
    tp_verification_timeouts,  \* keys <<msg_id, ticket>> of _tp_verification_timeouts
    strategy_type,             \* TradingConfig.strategy_type
    incomplete_signal_timeout, \* TradingConfig.incomplete_signal_timeout
    nextTicket,                \* next ticket the broker hands out
    now,                       \* datetime.now(), in clock units
    edits,                     \* edit events delivered so far
    failures,                  \* handlings so far in which the gateway refused a call
    lastEv,                    \* the last telegram event handled and how its handling went
    state_file,                \* the file BotState.save writes and BotState.load reads
    phase,                     \* where main() is: start(), the message loop, stop()
    connected,                 \* the executor holds its connection to the gateway
    inflight                   \* messages whose handler awaits the parser

vars ==
    <<state, pending_timeouts, timeout_tasks, tp_verification_timeouts, strategy_type,
      incomplete_signal_timeout, nextTicket,
      now, edits, failures, lastEv, state_file, phase, connected, inflight>>

\* ------------------------------------------------------------- data model

\* models.py TrackedPosition.  telegram_msg_id is the key the leg is stored
\* under; order_type keeps the direction.
TrackedPosition(ticket, symbol, order_type, entry, sl, tps, lot, opened, complete, status, role, osl, otps) ==
    [mt5_ticket |-> ticket, symbol |-> symbol, order_type |-> order_type,
     entry_price |-> entry, stop_loss |-> sl, take_profits |-> tps, lot_size |-> lot,
     opened_at |-> opened, is_complete |-> complete, status |-> status,
     tps_hit |-> <<>>, role |-> role, original_stop_loss |-> osl,
     original_take_profits |-> otps]

\* models.py DualPosition: a slot is <<>> (None) or <<leg>>.
DualPosition == [scalp |-> <<>>, runner |-> <<>>]

all_positions(dual) == dual.scalp \o dual.runner

is_closed_scalp_only(dual) ==
    \A i \in 1..Len(dual.scalp) : dual.scalp[i].status = "closed"

is_closed(dual) ==
    LET positions == all_positions(dual)
    IN  IF positions = <<>> THEN TRUE
        ELSE \A i \in 1..Len(positions) : positions[i].status = "closed"

get_by_role(dual, role) ==
    IF role = "scalp" THEN dual.scalp
    ELSE IF role = "runner" THEN dual.runner
    ELSE dual.scalp

is_buy(order_type) == order_type = "buy"

\* The legs of a dual as a set, and the tickets they hold.
Legs(dual) == {all_positions(dual)[i] : i \in 1..Len(all_positions(dual))}
all_tickets(dual) == {p.mt5_ticket : p \in Legs(dual)}

\* ------------------------------------------------------------ BotState

EmptyState ==
    [positions |-> <<>>, ticket_to_msg_id |-> <<>>, last_signal_msg_id |-> None]

add_position(S, msg_id, position, role) ==
    LET dual == IF msg_id \in DOMAIN S.positions THEN S.positions[msg_id]
                ELSE DualPosition
        p    == [position EXCEPT !.role = role]
        d2   == IF role = "runner" THEN [dual EXCEPT !.runner = <<p>>]
                ELSE [dual EXCEPT !.scalp = <<p>>]
    IN  [positions |-> (msg_id :> d2) @@ S.positions,
         ticket_to_msg_id |-> (p.mt5_ticket :> msg_id) @@ S.ticket_to_msg_id,
         last_signal_msg_id |-> msg_id]

\* Restriction of a function to a subset of its domain.
Restrict(f, D) == [x \in D |-> f[x]]

\* The (dual, opened_at) pairs get_pending_position_by_symbol collects: for
\* each dual its first leg that matches.
PendingKeys(S, symbol) ==
    {m \in DOMAIN S.positions :
        \E p \in Legs(S.positions[m]) :
            p.symbol = symbol /\ p.status = "pending_completion"}

FirstPendingOpenedAt(dual, symbol) ==
    LET ps == all_positions(dual)
        i  == CHOOSE i \in 1..Len(ps) :
                 /\ ps[i].symbol = symbol /\ ps[i].status = "pending_completion"
                 /\ \A j \in 1..(i - 1) :
                       ~(ps[j].symbol = symbol /\ ps[j].status = "pending_completion")
    IN  ps[i].opened_at

\* The key of the most recent pending dual of the symbol, or None.
get_pending_position_by_symbol(S, symbol) ==
    LET K == PendingKeys(S, symbol)
    IN  IF K = {} THEN None
        ELSE CHOOSE m \in K :
                \A k \in K :
                    FirstPendingOpenedAt(S.positions[m], symbol)
                        >= FirstPendingOpenedAt(S.positions[k], symbol)

reassign_position(S, old_msg_id, new_msg_id) ==
    IF old_msg_id \notin DOMAIN S.positions THEN S
    ELSE LET dual == S.positions[old_msg_id]
             rest == Restrict(S.positions, DOMAIN S.positions \ {old_msg_id})
         IN  [positions |-> (new_msg_id :> dual) @@ rest,
              ticket_to_msg_id |->
                  [t \in all_tickets(dual) |-> new_msg_id] @@ S.ticket_to_msg_id,
              last_signal_msg_id |-> new_msg_id]

get_earliest_opened(dual) ==
    LET ps == Legs(dual)
    IN  IF ps = {} THEN -1
        ELSE CHOOSE t \in {p.opened_at : p \in ps} :
                \A p \in ps : t <= p.opened_at

\* sorted(..., reverse=True)[:MAX_RECORDS]: the MAX_RECORDS duals opened last.
\* Duals are created by different events, so no two have the same earliest
\* opened_at (NoOpenedAtTies).
cleanup_old_records(S) ==
    IF Cardinality(DOMAIN S.positions) <= MAX_RECORDS THEN S
    ELSE LET keep == CHOOSE K \in SUBSET DOMAIN S.positions :
                        /\ Cardinality(K) = MAX_RECORDS
                        /\ \A k \in K : \A d \in DOMAIN S.positions \ K :
                              get_earliest_opened(S.positions[k])
                                  >= get_earliest_opened(S.positions[d])
             kept == Restrict(S.positions, keep)
             tix  == UNION {all_tickets(kept[m]) : m \in keep}
         IN  [S EXCEPT
                !.positions = kept,
                !.ticket_to_msg_id =
                    [t \in tix |-> CHOOSE m \in keep : t \in all_tickets(kept[m])]]

\* The in-memory effect of save(): the cleanup that runs before the dump.
save(S) == cleanup_old_records(S)

\* ---------------------------------------------------------- persistence

\* The keys of a JSON object are strings: str(n) on the way out, int(s) on
\* the way in.
str(n) == <<"str", n>>
int(s) == s[2]

\* datetime.isoformat / datetime.fromisoformat
isoformat(t) == <<"iso", t>>
fromisoformat(s) == s[2]

\* TrackedPosition.to_dict.  Enum members are kept by their values.
to_dict(p) == [p EXCEPT !.opened_at = isoformat(@)]

\* TrackedPosition.from_dict: the role defaults to SINGLE, tps_hit to [] and
\* the original SL and TPs to the current ones.
from_dict(data) ==
    LET role_str == IF "role" \in DOMAIN data THEN data.role ELSE "single"
        stop_loss == IF "stop_loss" \in DOMAIN data THEN data.stop_loss ELSE None
        take_profits ==
            IF "take_profits" \in DOMAIN data THEN data.take_profits ELSE <<>>
    IN  [mt5_ticket |-> data.mt5_ticket, symbol |-> data.symbol,
         order_type |-> data.order_type, entry_price |-> data.entry_price,
         stop_loss |-> stop_loss, take_profits |-> take_profits,
         lot_size |-> data.lot_size, opened_at |-> fromisoformat(data.opened_at),
         is_complete |-> data.is_complete, status |-> data.status,
         tps_hit |-> IF "tps_hit" \in DOMAIN data THEN data.tps_hit ELSE <<>>,
         role |-> IF role_str \in {"scalp", "runner", "single"} THEN role_str ELSE "single",
         original_stop_loss |-> IF "original_stop_loss" \in DOMAIN data
                                THEN data.original_stop_loss ELSE stop_loss,
         original_take_profits |-> IF "original_take_profits" \in DOMAIN data
                                   THEN data.original_take_profits ELSE take_profits]

\* DualPosition.to_dict / DualPosition.from_dict: an empty slot is null.
dual_to_dict(dual) ==
    [scalp |-> IF dual.scalp = <<>> THEN <<>> ELSE <<to_dict(dual.scalp[1])>>,
     runner |-> IF dual.runner = <<>> THEN <<>> ELSE <<to_dict(dual.runner[1])>>]

dual_from_dict(data) ==
    [scalp |-> IF data.scalp = <<>> THEN <<>> ELSE <<from_dict(data.scalp[1])>>,
     runner |-> IF data.runner = <<>> THEN <<>> ELSE <<from_dict(data.runner[1])>>]

\* DualPosition.from_single
from_single(pos) ==
    IF pos.role = "runner" THEN [DualPosition EXCEPT !.runner = <<pos>>]
    ELSE [DualPosition EXCEPT !.scalp = <<pos>>]

\* The data save() dumps, lines 240-251.
dump(S) ==
    [version |-> 3,
     last_signal_msg_id |-> S.last_signal_msg_id,
     positions |->
        [k \in {str(m) : m \in DOMAIN S.positions} |-> dual_to_dict(S.positions[int(k)])],
     ticket_to_msg_id |->
        [k \in {str(t) : t \in DOMAIN S.ticket_to_msg_id} |->
            S.ticket_to_msg_id[int(k)]]]

\* The state file: missing, or what it holds.  kind is "snapshot" for a JSON
\* object of the snapshot layout (data), "empty" for an empty file,
\* "corrupted" for text that is not JSON, "missing_key" and "bad_value" for a
\* snapshot with an entry that lacks a required key or holds a value that
\* does not parse, and "not_object" for a JSON value that is not an object.
BrokenFile(kind) == [kind |-> kind, data |-> dump(EmptyState)]
MissingFile == BrokenFile("missing")

\* The file after save() wrote the store S (S is the store after the cleanup).
written(S) == [kind |-> "snapshot", data |-> dump(S)]

\* A migration that fills the positions and leaves the ticket lookup alone.
migrate_v1_to_v2_unindexed(S, data) ==
    [S EXCEPT
        !.positions =
            [m \in {int(k) : k \in DOMAIN data.positions} |->
                from_single([from_dict(data.positions[str(m)]) EXCEPT !.role = "single"])]
            @@ @]

\* _migrate_v1_to_v2: each entry becomes a SINGLE leg in the scalp slot.
migrate_v1_to_v2(S, data) ==
    LET keys == {int(k) : k \in DOMAIN data.positions}
        position(m) == [from_dict(data.positions[str(m)]) EXCEPT !.role = "single"]
        tickets == {position(m).mt5_ticket : m \in keys}
    IN  [S EXCEPT
            !.positions = [m \in keys |-> from_single(position(m))] @@ @,
            !.ticket_to_msg_id =
                [t \in tickets |-> CHOOSE m \in keys : position(m).mt5_ticket = t] @@ @]

\* _load_v2: the ticket lookup is rebuilt from the positions; the lookup in
\* the file is not read.
load_v2(S, data) ==
    LET keys == {int(k) : k \in DOMAIN data.positions}
        dual(m) == dual_from_dict(data.positions[str(m)])
        tickets == UNION {all_tickets(dual(m)) : m \in keys}
    IN  [S EXCEPT
            !.positions = [m \in keys |-> dual(m)] @@ @,
            !.ticket_to_msg_id =
                [t \in tickets |-> CHOOSE m \in keys : t \in all_tickets(dual(m))] @@ @]

\* load(), lines 256-284, into the store S.  JSONDecodeError, KeyError and
\* ValueError are caught and reset the store; data.get on a JSON value that
\* is not an object raises AttributeError, which leaves load().
load(S, file) ==
    IF file.kind = "missing" THEN [state |-> S, raised |-> FALSE]
    ELSE IF file.kind = "not_object" THEN [state |-> S, raised |-> TRUE]
    ELSE IF file.kind # "snapshot" THEN [state |-> EmptyState, raised |-> FALSE]
    ELSE LET S1 == [S EXCEPT !.last_signal_msg_id = file.data.last_signal_msg_id]
         IN  [state |-> IF file.data.version = 1
                        THEN migrate_v1_to_v2(S1, file.data)
                        ELSE load_v2(S1, file.data),
              raised |-> FALSE]

\* ------------------------------------------------------------- strategy

Slots == {"scalp", "runner"}

\* The slot add_position / get_by_role use for a role.
SlotOf(role) == IF role = "runner" THEN "runner" ELSE "scalp"

First(seq) == IF seq = <<>> THEN None ELSE seq[1]
Last(seq) == IF seq = <<>> THEN None ELSE seq[Len(seq)]

TradeConfig(role, tp, sl) == [role |-> role, tp |-> tp, sl |-> sl]

\* DualTPStrategy.get_trades_to_open / SingleTradeStrategy.get_trades_to_open
get_trades_to_open(strategy, signal) ==
    IF strategy = "dual_tp"
    THEN IF signal.message_type = "re_entry"
         THEN <<TradeConfig("single", First(signal.take_profits), signal.stop_loss)>>
         ELSE <<TradeConfig("scalp", First(signal.take_profits), signal.stop_loss),
                TradeConfig("runner",
                            IF Len(signal.take_profits) >= 2
                            THEN Last(signal.take_profits) ELSE None,
                            signal.stop_loss)>>
    ELSE <<TradeConfig("single", First(signal.take_profits), signal.stop_loss)>>

should_ignore_profit_message(signal) ==
    signal.tp_hit_number = None /\ ~signal.move_sl_to_entry

NotClosed(slot) == slot # <<>> /\ slot[1].status # "closed"

TradeAction(action_type, role) == [action_type |-> action_type, role |-> role]

\* A dual-leg policy that verifies the scalp at TP1 and leaves the runner's
\* stop-loss where it is.
on_tp_hit_no_breakeven(strategy, tp_number, dual, signal) ==
    IF tp_number = 1
    THEN IF NotClosed(dual.scalp)
         THEN <<TradeAction("verify_closed", "scalp")>> ELSE <<>>
    ELSE IF tp_number # None /\ NotClosed(dual.runner)
    THEN <<TradeAction("verify_closed", "runner")>>
    ELSE <<>>

\* DualTPStrategy.on_tp_hit / SingleTradeStrategy.on_tp_hit.  A
\* move-to-breakeven action's value is the runner's entry price, which the
\* handler reads from the leg.
on_tp_hit(strategy, tp_number, dual, signal) ==
    IF strategy = "dual_tp"
    THEN IF tp_number = 1
         THEN (IF NotClosed(dual.scalp)
               THEN <<TradeAction("verify_closed", "scalp")>> ELSE <<>>)
              \o (IF NotClosed(dual.runner)
                  THEN <<TradeAction("move_sl_to_breakeven", "runner")>> ELSE <<>>)
         ELSE IF tp_number # None /\ tp_number > 1
         THEN IF NotClosed(dual.runner)
              THEN <<TradeAction("verify_closed", "runner")>> ELSE <<>>
         ELSE IF signal.move_sl_to_entry
         THEN IF NotClosed(dual.runner)
              THEN <<TradeAction("move_sl_to_breakeven", "runner")>> ELSE <<>>
         ELSE <<>>
    ELSE IF tp_number # None /\ NotClosed(dual.scalp)
         THEN <<TradeAction("verify_closed", "scalp")>>
         ELSE <<>>

\* ------------------------------------------------------------- gateway

\* ExecutionGateway.validateSlTp: a candidate on the wrong side of the entry
\* is dropped.
validate_sl_tp(buy, entry, sl, tp) ==
    [sl |-> IF sl # None /\ (IF buy THEN sl < entry ELSE sl > entry) THEN sl ELSE None,
     tp |-> IF tp # None /\ (IF buy THEN tp > entry ELSE tp < entry) THEN tp ELSE None]

\* MT5Executor.calculate_default_sl: a stop on the protective side of the price.
calculate_default_sl(order_type, price) ==
    IF is_buy(order_type) THEN price - 1 ELSE price + 1

\* --------------------------------------------------------- coordinator

\* What a handler works on: the store, the timer registries, the broker's
\* ticket counter, whether the gateway was called, and whether an exception
\* left the handler.
Ctx(S, pt, tt, tpv, nt) ==
    [state |-> S, pending_timeouts |-> pt, timeout_tasks |-> tt,
     tp_verification_timeouts |-> tpv, nextTicket |-> nt,
     state_file |-> state_file, gw |-> FALSE, raised |-> FALSE]

\* _cancel_timeout: pop the registry entry and cancel the task it refers to.
cancel_timeout(C, msg_id) ==
    IF msg_id \in C.pending_timeouts
    THEN [C EXCEPT !.pending_timeouts = @ \ {msg_id},
                   !.timeout_tasks[msg_id] = @ - 1]
    ELSE C

\* _start_timeout, lines 1299-1300: a new task is created whatever the
\* duration and stored under the key; a task already stored there loses its
\* registry entry and sleeps on.
start_timeout(C, msg_id) ==
    [C EXCEPT !.pending_timeouts = @ \cup {msg_id},
              !.timeout_tasks[msg_id] = @ + 1]

\* _calculate_default_tp: one take-profit at 1:3 risk/reward from the price.
calculate_default_tp(order_type, price, sl) ==
    LET risk == IF price >= sl THEN price - sl ELSE sl - price
    IN  <<IF is_buy(order_type) THEN price + 3 * risk ELSE price - 3 * risk>>

\* The take-profits a leg of the role is tracked with.
PosTps(role, tps) ==
    IF role = "runner" THEN tps
    ELSE IF tps = <<>> THEN <<>> ELSE <<tps[1]>>

\* The take-profit a handler sends for a leg of the role.
RoleTp(role, tps) == IF role = "runner" THEN Last(tps) ELSE First(tps)

\* Replace the leg in a slot of the dual stored under msg_id.
SetLeg(S, msg_id, slot, leg) ==
    [S EXCEPT !.positions[msg_id][slot] = <<leg>>]

\* _handle_new_signal, lines 597-644: execute_dual_signal and the tracking of
\* each trade that succeeded.  opens[role] is the gateway's answer for the
\* trade of the role; the broker opens no trade once its tickets are used up.
RECURSIVE OpenTrades(_, _, _, _, _, _, _)
OpenTrades(C, msg_id, signal, is_complete, configs, opens, at) ==
    IF configs = <<>> THEN C
    ELSE LET cfg == Head(configs)
             ok  == opens[SlotOf(cfg.role)] /\ C.nextTicket <= MaxTickets
             leg == TrackedPosition(
                        C.nextTicket, signal.symbol, signal.order_type, FillPrice,
                        signal.stop_loss, PosTps(cfg.role, signal.take_profits),
                        FillVolume, at, is_complete,
                        IF is_complete THEN "open" ELSE "pending_completion",
                        cfg.role, signal.stop_loss, signal.take_profits)
             C2  == IF ok
                    THEN [C EXCEPT
                            !.state = add_position(C.state, msg_id, leg, cfg.role),
                            !.nextTicket = @ + 1]
                    ELSE C
         IN  OpenTrades(C2, msg_id, signal, is_complete, Tail(configs), opens, at)

\* Apply F(leg, slot) to every leg of the dual stored under msg_id.
MapLegs(S, msg_id, F(_, _)) ==
    LET dual == S.positions[msg_id]
        d2   == [slot \in Slots |->
                    IF dual[slot] = <<>> THEN <<>> ELSE <<F(dual[slot][1], slot)>>]
    IN  [S EXCEPT !.positions[msg_id] = [scalp |-> d2.scalp, runner |-> d2.runner]]

\* The gateway's answers while one handler runs:
\*   opens[slot]  execute_dual_signal opened the trade stored in the slot
\*   alive[slot]  get_position found the slot's leg (None: the broker closed
\*                it, or the connection was lost)
\*   ans[slot]    the modify / close / partial close of the slot's leg succeeded
\*   price        get_current_price returned a price
\*   profit[slot] is_position_profitable / would_close_profitably of the leg

\* MT5Executor.get_position for the leg of a slot.
get_position(A, slot) == A.alive[slot]

\* The result["success"] of a modify / close call on the leg of a slot: the
\* executor looks the position up first and fails when it is not found.
CallOk(C, A, pos, slot) == get_position(A, slot) /\ A.ans[slot]

\* _complete_pending_position, lines 709-760: one leg of the pending dual.
CompleteLeg(C, A, signal, pos, slot) ==
    IF pos.status = "closed" THEN pos
    ELSE IF ~get_position(A, slot)
    THEN [pos EXCEPT !.status = "closed"]
    ELSE LET v == validate_sl_tp(is_buy(pos.order_type), pos.entry_price,
                                 signal.stop_loss, RoleTp(pos.role, signal.take_profits))
         IN  IF v.sl = None /\ v.tp = None THEN pos
             ELSE IF CallOk(C, A, pos, slot)
             THEN [pos EXCEPT !.stop_loss = v.sl,
                              !.take_profits = PosTps(pos.role, signal.take_profits),
                              !.is_complete = TRUE,
                              !.status = "open"]
             ELSE pos

SetOriginal(signal, pos) ==
    [pos EXCEPT !.original_stop_loss = signal.stop_loss,
                !.original_take_profits = signal.take_profits]

\* Incomplete signals get the default stop-loss and take-profit
\* (_handle_new_signal, lines 571-577).
WithDefaults(signal, A) ==
    LET sl  == IF signal.stop_loss # None THEN signal.stop_loss
               ELSE IF A.price THEN calculate_default_sl(signal.order_type, FillPrice)
               ELSE None
        tps == IF signal.take_profits = <<>> /\ sl # None /\ A.price
               THEN calculate_default_tp(signal.order_type, FillPrice, sl)
               ELSE signal.take_profits
    IN  [signal EXCEPT !.stop_loss = sl, !.take_profits = tps]

RECURSIVE handle_new_signal(_, _, _, _, _, _, _)
RECURSIVE complete_pending_position(_, _, _, _, _, _, _)

\* _complete_pending_position.  A direction mismatch hands the signal back to
\* _handle_new_signal, one call deeper.
complete_pending_position(C, new_msg_id, old_msg_id, signal, A, depth, at) ==
    LET pending_dual == C.state.positions[old_msg_id]
        ref_pos == all_positions(pending_dual)[1]
    IN  IF is_buy(ref_pos.order_type) # is_buy(signal.order_type)
        THEN handle_new_signal(C, new_msg_id, signal, TRUE, A, depth + 1, at)
        ELSE LET C1 == cancel_timeout(C, old_msg_id)
                 S1 == reassign_position(C1.state, old_msg_id, new_msg_id)
                 SO(pos, slot) == SetOriginal(signal, pos)
                 S2 == MapLegs(S1, new_msg_id, SO)
                 CL(pos, slot) == CompleteLeg(C1, A, signal, pos, slot)
                 S3 == MapLegs(S2, new_msg_id, CL)
             IN  [C1 EXCEPT !.state = save(S3), !.state_file = written(save(S3)), !.gw = TRUE]

\* _handle_new_signal.  depth counts the nested calls; past MaxDepth the
\* interpreter raises RecursionError, which leaves every handler on the stack.
handle_new_signal(C, msg_id, signal, is_complete, A, depth, at) ==
    IF depth > MaxDepth THEN [C EXCEPT !.raised = TRUE]
    ELSE IF signal.symbol \notin Symbols THEN C
    ELSE LET pending == get_pending_position_by_symbol(C.state, signal.symbol)
         IN  IF pending # None /\ is_complete
             THEN complete_pending_position(C, msg_id, pending, signal, A, depth, at)
             ELSE LET sig == IF is_complete THEN signal ELSE WithDefaults(signal, A)
                      configs == get_trades_to_open(strategy_type, sig)
                      C1 == OpenTrades([C EXCEPT !.gw = TRUE], msg_id, sig,
                                       is_complete, configs, A.opens, at)
                      any_success == C1.nextTicket # C.nextTicket
                      scalp_ok == A.opens["scalp"] /\ C.nextTicket <= MaxTickets
                      C2 == IF any_success THEN [C1 EXCEPT !.state = save(@), !.state_file = written(save(C1.state))] ELSE C1
                  IN  IF any_success /\ ~is_complete /\ scalp_ok
                      THEN start_timeout(C2, msg_id)
                      ELSE C2

\* Python's `a or b` on optional prices.
Or(a, b) == IF a # None THEN a ELSE b

\* The tickets of the legs of a dual that are CLOSED in S2 and were not in S1.
NewlyClosed(S1, S2, msg_id) ==
    {p.mt5_ticket : p \in {q \in Legs(S2.positions[msg_id]) : q.status = "closed"}}
        \ {p.mt5_ticket : p \in {q \in Legs(S1.positions[msg_id]) : q.status = "closed"}}

HasOpenLeg(dual) == \E p \in Legs(dual) : p.status # "closed"

\* A modification that does not look at the status of the leg it modifies.
ModifyLegAnyStatus(C, A, signal, pos, slot) ==
    LET new_sl == Or(signal.new_stop_loss, signal.stop_loss)
        effective_sl == Or(new_sl, pos.stop_loss)
    IN  IF CallOk(C, A, pos, slot)
        THEN [pos EXCEPT
                !.stop_loss = effective_sl,
                !.take_profits = IF signal.take_profits # <<>>
                                 THEN PosTps(pos.role, signal.take_profits)
                                 ELSE @,
                !.is_complete = TRUE,
                !.status = "open"]
        ELSE pos

\* _handle_modification, lines 860-882: one leg.
ModifyLeg(C, A, signal, pos, slot) ==
    IF pos.status = "closed" THEN pos
    ELSE LET new_sl == Or(signal.new_stop_loss, signal.stop_loss)
             effective_sl == Or(new_sl, pos.stop_loss)
         IN  IF CallOk(C, A, pos, slot)
             THEN [pos EXCEPT
                     !.stop_loss = effective_sl,
                     !.take_profits = IF signal.take_profits # <<>>
                                      THEN PosTps(pos.role, signal.take_profits)
                                      ELSE @,
                     !.is_complete = TRUE,
                     !.status = "open"]
             ELSE pos

\* _handle_modification
handle_modification(C, target_msg_id, signal, A) ==
    IF target_msg_id = None \/ target_msg_id \notin DOMAIN C.state.positions THEN C
    ELSE LET C1 == cancel_timeout(C, target_msg_id)
             ML(pos, slot) == ModifyLeg(C1, A, signal, pos, slot)
         IN  [C1 EXCEPT
                !.state = save(MapLegs(C1.state, target_msg_id, ML)),
                !.state_file = written(save(MapLegs(C1.state, target_msg_id, ML))),
                !.gw = @ \/ HasOpenLeg(C.state.positions[target_msg_id])]

\* _handle_close_signal, lines 1084-1095, and the closing loops of the
\* re-entry handler and of the pending-completion timer: one leg.
CloseLeg(C, A, pos, slot) ==
    IF pos.status # "closed" /\ CallOk(C, A, pos, slot)
    THEN [pos EXCEPT !.status = "closed"]
    ELSE pos

\* A close handler that marks the legs CLOSED and leaves the file as it is.
handle_close_signal_unsaved(C, target_msg_id, A) ==
    IF target_msg_id = None \/ target_msg_id \notin DOMAIN C.state.positions THEN C
    ELSE IF is_closed(C.state.positions[target_msg_id]) THEN C
    ELSE LET CL(pos, slot) == CloseLeg(C, A, pos, slot)
             S1 == MapLegs(C.state, target_msg_id, CL)
         IN  [cancel_timeout(C, target_msg_id) EXCEPT !.state = S1, !.gw = TRUE]

\* _handle_close_signal
handle_close_signal(C, target_msg_id, A) ==
    IF target_msg_id = None \/ target_msg_id \notin DOMAIN C.state.positions THEN C
    ELSE IF is_closed(C.state.positions[target_msg_id]) THEN C
    ELSE LET CL(pos, slot) == CloseLeg(C, A, pos, slot)
             S1 == MapLegs(C.state, target_msg_id, CL)
             closed == NewlyClosed(C.state, S1, target_msg_id)
             C1 == [C EXCEPT !.state = S1, !.gw = TRUE]
         IN  IF closed # {}
             THEN [cancel_timeout(C1, target_msg_id) EXCEPT
                     !.state = save(@), !.state_file = written(save(C1.state))]
             ELSE C1

\* ExecutionGateway.partialClose: part of the volume is closed while more
\* than one lot step is left.
PartialOk(C, A, pos, slot) == CallOk(C, A, pos, slot) /\ pos.lot_size > 1

PartialLeg(C, A, pos, slot) ==
    IF pos.status # "closed" /\ PartialOk(C, A, pos, slot)
    THEN [pos EXCEPT !.lot_size = @ - 1]
    ELSE pos

\* _handle_partial_close
handle_partial_close(C, target_msg_id, signal, A) ==
    IF target_msg_id = None \/ signal.close_percentage = None THEN C
    ELSE IF target_msg_id \notin DOMAIN C.state.positions THEN C
    ELSE IF is_closed(C.state.positions[target_msg_id]) THEN C
    ELSE LET PL(pos, slot) == PartialLeg(C, A, pos, slot)
             S1 == MapLegs(C.state, target_msg_id, PL)
         IN  [C EXCEPT !.state = IF S1 # C.state THEN save(S1) ELSE S1,
                       !.state_file = IF S1 # C.state THEN written(save(S1)) ELSE @,
                       !.gw = TRUE]

\* tps_hit.append(tp_hit_number) when the notification carries a number.
AppendHit(pos, signal) ==
    IF signal.tp_hit_number # None
    THEN [pos EXCEPT !.tps_hit = Append(@, signal.tp_hit_number)]
    ELSE pos

\* _handle_profit_notification, lines 1019-1059: the action for one leg.
ProfitLeg(C, A, signal, actions, pos, slot) ==
    LET mine == {i \in 1..Len(actions) : SlotOf(actions[i].role) = slot}
    IN  IF mine = {} \/ pos.status = "closed" THEN pos
        ELSE LET action == actions[CHOOSE i \in mine : TRUE]
             IN  IF action.action_type = "verify_closed"
                 THEN IF ~get_position(A, slot)
                      THEN AppendHit([pos EXCEPT !.status = "closed"], signal)
                      ELSE pos
                 ELSE \* move_sl_to_breakeven
                      IF ~get_position(A, slot)
                      THEN [pos EXCEPT !.status = "closed"]
                      ELSE IF CallOk(C, A, pos, slot)
                      THEN AppendHit([pos EXCEPT !.stop_loss = pos.entry_price], signal)
                      ELSE pos

\* The verifications _handle_profit_notification schedules: verify_closed
\* actions whose leg the broker still holds.
ProfitVerifications(C, A, target_msg_id, actions) ==
    LET dual == C.state.positions[target_msg_id]
    IN  {<<target_msg_id, get_by_role(dual, actions[i].role)[1].mt5_ticket>> :
            i \in {j \in 1..Len(actions) :
                      /\ actions[j].action_type = "verify_closed"
                      /\ NotClosed(get_by_role(dual, actions[j].role))
                      /\ get_position(A, SlotOf(actions[j].role))}}

\* _handle_profit_notification
handle_profit_notification(C, target_msg_id, signal, A) ==
    IF should_ignore_profit_message(signal) \/ target_msg_id = None THEN C
    ELSE IF target_msg_id \notin DOMAIN C.state.positions THEN C
    ELSE IF is_closed(C.state.positions[target_msg_id]) THEN C
    ELSE LET dual == C.state.positions[target_msg_id]
             actions == on_tp_hit(strategy_type, signal.tp_hit_number, dual, signal)
             PL(pos, slot) == ProfitLeg(C, A, signal, actions, pos, slot)
         IN  IF actions = <<>> THEN C
             ELSE [C EXCEPT
                     !.state = save(MapLegs(C.state, target_msg_id, PL)),
                     !.state_file = written(save(MapLegs(C.state, target_msg_id, PL))),
                     !.tp_verification_timeouts =
                         @ \cup ProfitVerifications(C, A, target_msg_id, actions),
                     !.gw = TRUE]

BaseSignal ==
    [symbol |-> "XAUUSDb", order_type |-> "buy", stop_loss |-> None,
     take_profits |-> <<>>, message_type |-> "not_trading", tp_hit_number |-> None,
     move_sl_to_entry |-> FALSE, new_stop_loss |-> None, new_take_profit |-> None,
     close_percentage |-> None, actions |-> <<>>, confident |-> TRUE]

\* MT5Executor.is_position_profitable for the leg of a slot: False when the
\* position is not found.
is_position_profitable(A, slot) == A.profit[slot] /\ get_position(A, slot)

\* A re-entry that goes ahead without looking at the legs' profit.
any_in_loss_unchecked(dual, A) == TRUE

\* _handle_re_entry, lines 921-925: some open leg of the target is in loss.
any_in_loss(dual, A) ==
    \E slot \in {s \in Slots : NotClosed(dual[s])} : ~is_position_profitable(A, slot)

\* _handle_re_entry
handle_re_entry(C, new_msg_id, target_msg_id, signal, A, at) ==
    IF target_msg_id = None \/ target_msg_id \notin DOMAIN C.state.positions THEN C
    ELSE LET dual == C.state.positions[target_msg_id]
             open_slots == {slot \in Slots : NotClosed(dual[slot])}
             CL(pos, slot) == CloseLeg(C, A, pos, slot)
             S1 == MapLegs(C.state, target_msg_id, CL)
             closed == NewlyClosed(C.state, S1, target_msg_id)
             \* the first leg, in all_positions order, whose close succeeded
             ref_pos == IF NotClosed(dual.scalp)
                           /\ dual.scalp[1].mt5_ticket \in closed
                        THEN dual.scalp[1] ELSE dual.runner[1]
             C1 == [C EXCEPT !.state = S1, !.gw = TRUE]
             C2 == [cancel_timeout(C1, target_msg_id) EXCEPT
                        !.state = save(@), !.state_file = written(save(C1.state))]
             re_entry_sl == Or(Or(signal.new_stop_loss, signal.stop_loss),
                               ref_pos.stop_loss)
             re_entry_signal ==
                 [BaseSignal EXCEPT
                    !.symbol = signal.symbol,
                    !.order_type = ref_pos.order_type,
                    !.stop_loss = re_entry_sl,
                    !.take_profits = ref_pos.take_profits,
                    !.message_type = "re_entry"]
         IN  IF open_slots = {} THEN C
             ELSE IF ~any_in_loss(dual, A) THEN [C EXCEPT !.gw = TRUE]
             ELSE IF closed = {} THEN C1
             ELSE IF re_entry_sl = None THEN C2
             ELSE handle_new_signal(C2, new_msg_id, re_entry_signal, TRUE, A, 0, at)

\* _handle_compound_action, lines 1180-1200: the modification sub-actions,
\* applied to the target's scalp-slot leg (get_position_by_msg_id).  Returns
\* the context and the stop-loss the new orders inherit.
RECURSIVE CompoundMods(_, _, _, _, _)
CompoundMods(C, target_msg_id, mods, A, modification_sl) ==
    IF mods = <<>> THEN [ctx |-> C, modification_sl |-> modification_sl]
    ELSE LET action == Head(mods)
             slot == IF target_msg_id # None
                        /\ target_msg_id \in DOMAIN C.state.positions
                     THEN C.state.positions[target_msg_id].scalp ELSE <<>>
         IN  IF NotClosed(slot)
             THEN IF CallOk(C, A, slot[1], "scalp")
                  THEN LET pos == IF action.new_stop_loss # None
                                  THEN [slot[1] EXCEPT !.stop_loss = action.new_stop_loss]
                                  ELSE slot[1]
                           S1 == save(SetLeg(C.state, target_msg_id, "scalp", pos))
                       IN  CompoundMods([C EXCEPT !.state = S1, !.state_file = written(S1),
                                                  !.gw = TRUE],
                                        target_msg_id, Tail(mods), A,
                                        Or(action.new_stop_loss, modification_sl))
                  ELSE CompoundMods([C EXCEPT !.gw = TRUE], target_msg_id,
                                    Tail(mods), A, modification_sl)
             ELSE CompoundMods(C, target_msg_id, Tail(mods), A, action.new_stop_loss)

\* _handle_compound_action, lines 1203-1261: the new-signal sub-actions, each
\* through _handle_new_signal under the compound message's id.  As[i] holds
\* the gateway's answers for the i-th of them.
RECURSIVE CompoundNews(_, _, _, _, _, _, _)
CompoundNews(C, msg_id, signal, news, As, modification_sl, at) ==
    IF news = <<>> \/ C.raised THEN C
    ELSE LET action == Head(news)
             A == Head(As)
             sl0 == Or(action.stop_loss, modification_sl)
             pending_sl == IF sl0 = None /\ action.entry_price # None
                           THEN calculate_default_sl(action.order_type,
                                                     action.entry_price)
                           ELSE sl0
             pending_signal ==
                 [BaseSignal EXCEPT
                    !.symbol = signal.symbol,
                    !.order_type = action.order_type,
                    !.stop_loss = pending_sl,
                    !.take_profits = action.take_profits,
                    !.message_type = "new_signal_complete"]
             is_complete == pending_sl # None /\ action.take_profits # <<>>
             C1 == handle_new_signal(C, msg_id, pending_signal, is_complete, A, 0, at)
         IN  CompoundNews(C1, msg_id, signal, Tail(news), Tail(As), modification_sl, at)

IsMod(action) == action.action_type = "modification"
IsNew(action) == action.action_type = "new_signal"

\* _handle_compound_action
handle_compound_action(C, msg_id, target_msg_id, signal, As, at) ==
    IF signal.actions = <<>> THEN C
    ELSE LET m == CompoundMods(C, target_msg_id, SelectSeq(signal.actions, IsMod),
                               Head(As), None)
         IN  CompoundNews(m.ctx, msg_id, signal, SelectSeq(signal.actions, IsNew),
                          As, m.modification_sl, at)

\* _apply_edit_changes, lines 430-453: whether the edit differs from the
\* original snapshot of the reference leg (prices are integers, so two
\* prices differ by more than the 0.01 epsilon iff they differ).
EditChanged(dual, new_sl, new_tps) ==
    LET ref_pos == all_positions(dual)[1]
        original_sl == Or(ref_pos.original_stop_loss, ref_pos.stop_loss)
        original_tps == IF ref_pos.original_take_profits # <<>>
                        THEN ref_pos.original_take_profits ELSE ref_pos.take_profits
        sl_changed == new_sl # None /\ original_sl # None /\ new_sl # original_sl
        tps_changed == new_tps # original_tps
    IN  sl_changed \/ tps_changed

\* _apply_edit_changes, lines 457-494: one leg.
EditLeg(C, A, new_signal, pos, slot) ==
    IF pos.status = "closed" THEN pos
    ELSE IF CallOk(C, A, pos, slot)
    THEN [pos EXCEPT
            !.stop_loss = Or(new_signal.stop_loss, @),
            !.take_profits = IF new_signal.take_profits # <<>>
                             THEN new_signal.take_profits ELSE @,
            !.status = "open",
            !.is_complete = IF pos.status = "pending_completion" THEN TRUE ELSE @,
            !.original_stop_loss = new_signal.stop_loss,
            !.original_take_profits = new_signal.take_profits]
    ELSE pos

\* _apply_edit_changes
apply_edit_changes(C, msg_id, new_signal, A) ==
    LET dual == C.state.positions[msg_id]
        EL(pos, slot) == EditLeg(C, A, new_signal, pos, slot)
    IN  IF all_positions(dual) = <<>> THEN C
        ELSE IF ~EditChanged(dual, new_signal.stop_loss, new_signal.take_profits)
        THEN C
        ELSE [C EXCEPT !.state = save(MapLegs(C.state, msg_id, EL)),
                      !.state_file = written(save(MapLegs(C.state, msg_id, EL))),
                       !.gw = @ \/ HasOpenLeg(dual)]

\* A window that excludes its boundary instant.
WithinEditWindowStrict(dual, t) ==
    t - get_earliest_opened(dual) < edit_window_seconds

\* Safety check 3 of _process_edited_message: the edit is inside the window.
WithinEditWindow(dual, t) ==
    ~(t - get_earliest_opened(dual) > edit_window_seconds)

\* _process_edited_message.  parsed is FALSE when the parser returns None
\* for the edited text.
process_edited_message(C, msg_id, parsed, new_signal, A, t) ==
    IF msg_id \notin DOMAIN C.state.positions THEN C
    ELSE LET dual == C.state.positions[msg_id]
         IN  IF is_closed(dual) THEN C
             ELSE IF ~WithinEditWindow(dual, t) THEN C
             ELSE IF ~parsed THEN C
             ELSE apply_edit_changes(C, msg_id, new_signal, A)

\* A resolution that gives up on an untracked reply id.
resolve_target_no_fallback(S, reply_to_msg_id) ==
    IF reply_to_msg_id # None
    THEN IF reply_to_msg_id \in DOMAIN S.positions THEN reply_to_msg_id ELSE None
    ELSE S.last_signal_msg_id

\* _resolve_target_msg_id
resolve_target_msg_id(S, reply_to_msg_id) ==
    IF reply_to_msg_id # None /\ reply_to_msg_id \in DOMAIN S.positions
    THEN reply_to_msg_id
    ELSE S.last_signal_msg_id

\* _route_signal: the handler of the signal's message type; any other type
\* has no handler.
route_signal(C, msg_id, reply_to_msg_id, signal, As, at) ==
    LET target_msg_id == resolve_target_msg_id(C.state, reply_to_msg_id)
        A == Head(As)
        kind == signal.message_type
    IN  IF kind = "new_signal_complete"
        THEN handle_new_signal(C, msg_id, signal, TRUE, A, 0, at)
        ELSE IF kind = "new_signal_incomplete"
        THEN handle_new_signal(C, msg_id, signal, FALSE, A, 0, at)
        ELSE IF kind = "modification"
        THEN handle_modification(C, target_msg_id, signal, A)
        ELSE IF kind = "re_entry"
        THEN handle_re_entry(C, msg_id, target_msg_id, signal, A, at)
        ELSE IF kind = "profit_notification"
        THEN handle_profit_notification(C, target_msg_id, signal, A)
        ELSE IF kind = "close_signal"
        THEN handle_close_signal(C, target_msg_id, A)
        ELSE IF kind = "partial_close"
        THEN handle_partial_close(C, target_msg_id, signal, A)
        ELSE IF kind = "compound_action"
        THEN handle_compound_action(C, msg_id, target_msg_id, signal, As, at)
        ELSE C

\* _process_message, lines 356-362: the confidence threshold, then the routing.
process_message(C, msg_id, reply_to_msg_id, signal, As, at) ==
    IF ~signal.confident THEN C
    ELSE route_signal(C, msg_id, reply_to_msg_id, signal, As, at)

\* ---------------------------------------------------------------- timers

\* timeout_handler of _start_timeout, after its sleep.
timeout_handler(C, msg_id, A) ==
    LET C0 == [C EXCEPT !.pending_timeouts = @ \ {msg_id},
                        !.timeout_tasks[msg_id] = @ - 1]
    IN  IF msg_id \notin DOMAIN C.state.positions THEN C0
        ELSE LET dual == C.state.positions[msg_id]
                 CP(pos, slot) ==
                     IF pos.status = "pending_completion"
                     THEN CloseLeg(C, A, pos, slot) ELSE pos
                 S1 == MapLegs(C.state, msg_id, CP)
                 closed == NewlyClosed(C.state, S1, msg_id)
             IN  IF \A p \in Legs(dual) : p.status # "pending_completion" THEN C0
                 ELSE [C0 EXCEPT !.state = save(S1), !.state_file = written(save(S1)), !.gw = TRUE]

\* BotState.get_position_by_ticket: <<msg_id, slot>> of the leg, or <<>>.
get_position_by_ticket(S, ticket) ==
    IF ticket \notin DOMAIN S.ticket_to_msg_id THEN <<>>
    ELSE LET msg_id == S.ticket_to_msg_id[ticket]
         IN  IF msg_id \notin DOMAIN S.positions THEN <<>>
             ELSE LET dual == S.positions[msg_id]
                  IN  IF dual.scalp # <<>> /\ dual.scalp[1].mt5_ticket = ticket
                      THEN <<msg_id, "scalp">>
                      ELSE IF dual.runner # <<>> /\ dual.runner[1].mt5_ticket = ticket
                      THEN <<msg_id, "runner">>
                      ELSE <<>>

\* MT5Executor.would_close_profitably for the leg of a slot: is_safe, whether
\* the position is not at a loss now.
would_close_profitably(A, slot) == A.profit[slot]

\* verification_handler without its look at the stored status.
verification_handler_unrechecked(C, key, A) ==
    LET C0 == [C EXCEPT !.tp_verification_timeouts = @ \ {key}]
        found == get_position_by_ticket(C.state, key[2])
    IN  IF found = <<>> THEN C0
        ELSE LET msg_id == found[1]
                 slot == found[2]
                 pos == C.state.positions[msg_id][slot][1]
                 closed_pos == [pos EXCEPT !.status = "closed"]
             IN  IF ~get_position(A, slot) \/ (would_close_profitably(A, slot)
                                               /\ CallOk(C, A, pos, slot))
                 THEN [C0 EXCEPT !.state = save(SetLeg(C.state, msg_id, slot, closed_pos)),
                               !.state_file = written(save(SetLeg(C.state, msg_id, slot, closed_pos))),
                                 !.gw = TRUE]
                 ELSE [C0 EXCEPT !.gw = TRUE]

\* verification_handler without its safety check: it force-closes whatever
\* would_close_profitably says.
verification_handler_unsafe(C, key, A) ==
    LET C0 == [C EXCEPT !.tp_verification_timeouts = @ \ {key}]
        found == get_position_by_ticket(C.state, key[2])
    IN  IF found = <<>> THEN C0
        ELSE LET msg_id == found[1]
                 slot == found[2]
                 pos == C.state.positions[msg_id][slot][1]
                 closed_pos == [pos EXCEPT !.status = "closed"]
             IN  IF pos.status = "closed" THEN C0
                 ELSE IF ~get_position(A, slot) \/ CallOk(C, A, pos, slot)
                 THEN [C0 EXCEPT !.state = save(SetLeg(C.state, msg_id, slot, closed_pos)),
                               !.state_file = written(save(SetLeg(C.state, msg_id, slot, closed_pos))),
                                 !.gw = TRUE]
                 ELSE [C0 EXCEPT !.gw = TRUE]

\* verification_handler of _start_tp_verification_timeout, after its sleep.
verification_handler(C, key, A) ==
    LET C0 == [C EXCEPT !.tp_verification_timeouts = @ \ {key}]
        ticket == key[2]
        found == get_position_by_ticket(C.state, ticket)
    IN  IF found = <<>> THEN C0
        ELSE LET msg_id == found[1]
                 slot == found[2]
                 pos == C.state.positions[msg_id][slot][1]
                 closed_pos == [pos EXCEPT !.status = "closed"]
             IN  IF pos.status = "closed" THEN C0
                 ELSE IF ~get_position(A, slot)
                 THEN [C0 EXCEPT !.state = save(SetLeg(C.state, msg_id, slot, closed_pos)),
                               !.state_file = written(save(SetLeg(C.state, msg_id, slot, closed_pos))),
                                 !.gw = TRUE]
                 ELSE IF would_close_profitably(A, slot) /\ CallOk(C, A, pos, slot)
                 THEN [C0 EXCEPT !.state = save(SetLeg(C.state, msg_id, slot, closed_pos)),
                               !.state_file = written(save(SetLeg(C.state, msg_id, slot, closed_pos))),
                                 !.gw = TRUE]
                 ELSE [C0 EXCEPT !.gw = TRUE]

\* ---------------------------------------------------------------- inputs

AllTrue == [slot \in Slots |-> TRUE]
AllFalse == [slot \in Slots |-> FALSE]
SlotAnswers == [Slots -> BOOLEAN]
Uniform == {AllTrue, AllFalse}

\* The answers of a gateway that finds every leg and carries out every call.
OkAnswers ==
    [opens |-> AllTrue, alive |-> AllTrue, ans |-> AllTrue, price |-> TRUE,
     profit |-> AllTrue]

\* The gateway refuses or fails a call.
Refused(A) == A.opens # AllTrue \/ A.ans # AllTrue \/ ~A.price

\* The set-up that goes with a direction.
LevelsOf(o) == IF o = "buy" THEN <<4, <<6, 7>>>> ELSE <<6, <<4, 3>>>>

\* Complete new signals.
NewSignalCompleteSignals ==
    {[BaseSignal EXCEPT !.message_type = "new_signal_complete", !.symbol = sy,
                        !.order_type = o, !.stop_loss = LevelsOf(o)[1],
                        !.take_profits = LevelsOf(o)[2]] :
        sy \in Symbols, o \in OrderTypes}

\* Incomplete new signals: the SL, the TPs or both are missing.
NewSignalIncompleteSignals ==
    {[BaseSignal EXCEPT !.message_type = "new_signal_incomplete", !.symbol = sy,
                        !.order_type = x[1], !.stop_loss = x[2], !.take_profits = x[3]] :
        sy \in Symbols,
        x \in {<<"buy", None, <<>>>>, <<"sell", None, <<>>>>, <<"buy", 4, <<>>>>}}

ModificationSignals ==
    {[BaseSignal EXCEPT !.message_type = "modification", !.new_stop_loss = x[1],
                        !.take_profits = x[2]] :
        x \in {<<4, <<>>>>, <<6, <<>>>>, <<None, <<6, 7>>>>}}

ReEntrySignals ==
    {[BaseSignal EXCEPT !.message_type = "re_entry", !.symbol = sy, !.stop_loss = sl] :
        sy \in Symbols, sl \in {None, 4}}

ProfitSignals ==
    {[BaseSignal EXCEPT !.message_type = "profit_notification", !.tp_hit_number = x[1],
                        !.move_sl_to_entry = x[2]] :
        x \in (TpNumbers \X {FALSE}) \cup {<<None, TRUE>>}}

CloseSignals == {[BaseSignal EXCEPT !.message_type = "close_signal"]}

PartialCloseSignals ==
    {[BaseSignal EXCEPT !.message_type = "partial_close", !.close_percentage = pct] :
        pct \in {None, 50}}

\* Sub-actions of a compound message (raw action dicts).
ModAction(sl) ==
    [action_type |-> "modification", new_stop_loss |-> sl, order_type |-> "buy",
     stop_loss |-> None, take_profits |-> <<>>, entry_price |-> None]
NewAction(o, sl, tps, entry) ==
    [action_type |-> "new_signal", new_stop_loss |-> None, order_type |-> o,
     stop_loss |-> sl, take_profits |-> tps, entry_price |-> entry]

NewActions ==
    {NewAction("buy", 4, <<6, 7>>, None), NewAction("sell", 6, <<4, 3>>, None),
     NewAction("buy", None, <<>>, None)}

\* Compound messages: a modification followed by a new signal (with a
\* stop-loss of its own, or without one), or two new signals.
CompoundSignals ==
    {[BaseSignal EXCEPT !.message_type = "compound_action", !.symbol = sy,
                        !.actions = acts] :
        sy \in Symbols,
        acts \in {<<ModAction(6), NewAction("buy", 4, <<6, 7>>, None)>>,
                  <<ModAction(6), NewAction("sell", None, <<4>>, None)>>}
                 \cup {<<n, NewAction("buy", 4, <<6, 7>>, None)>> : n \in NewActions}}

\* Compound messages that enter the market twice without levels ("buy now,
\* buy again"): two incomplete new signals under one message id.
RepeatedEntrySignals ==
    {[BaseSignal EXCEPT !.message_type = "compound_action", !.symbol = sy,
                        !.actions = <<NewAction("buy", None, <<>>, None),
                                      NewAction("buy", None, <<>>, None)>>] :
        sy \in Symbols}

NotTradingSignals == {BaseSignal}

SignalsOf(kind) ==
    CASE kind = "new_signal_complete" -> NewSignalCompleteSignals
      [] kind = "new_signal_incomplete" -> NewSignalIncompleteSignals
      [] kind = "modification" -> ModificationSignals
      [] kind = "re_entry" -> ReEntrySignals
      [] kind = "profit_notification" -> ProfitSignals
      [] kind = "close_signal" -> CloseSignals
      [] kind = "partial_close" -> PartialCloseSignals
      [] kind = "compound_action" -> CompoundSignals
      [] OTHER -> NotTradingSignals

\* The gateway answers that matter to the handler of each message type.
AnswersOf(kind) ==
    CASE kind = "new_signal_complete" ->
            {<<[OkAnswers EXCEPT !.opens = o, !.alive = l, !.ans = a]>> :
                o \in Uniform, l \in Uniform, a \in Uniform}
      [] kind = "new_signal_incomplete" ->
            {<<[OkAnswers EXCEPT !.opens = o, !.price = p]>> :
                o \in Uniform, p \in BOOLEAN}
      [] kind = "re_entry" ->
            {<<[OkAnswers EXCEPT !.opens = o, !.ans = a, !.profit = pr]>> :
                o \in Uniform, a \in Uniform, pr \in SlotAnswers}
      [] kind = "compound_action" ->
            {<<[OkAnswers EXCEPT !.opens = o1, !.ans = a],
               [OkAnswers EXCEPT !.opens = o2]>> :
                o1 \in Uniform, o2 \in Uniform, a \in Uniform}
      [] kind = "profit_notification" ->
            {<<[OkAnswers EXCEPT !.alive = l, !.ans = a]>> :
                l \in SlotAnswers, a \in Uniform}
      [] kind = "not_trading" -> {<<OkAnswers>>}
      [] OTHER ->
            {<<[OkAnswers EXCEPT !.alive = x[1], !.ans = x[2]]>> :
                x \in {<<AllTrue, AllTrue>>, <<AllTrue, AllFalse>>,
                       <<AllFalse, AllFalse>>}}

\* The re-parse of an edited message: any signal the parser can produce; only
\* its stop_loss and take_profits are read.
EditSignals ==
    {[BaseSignal EXCEPT !.message_type = IF x[1] # None /\ x[2] # <<>>
                                         THEN "new_signal_complete"
                                         ELSE "new_signal_incomplete",
                        !.stop_loss = x[1], !.take_profits = x[2], !.confident = c] :
        x \in Levels \cup {<<None, <<>>>>}, c \in BOOLEAN}

\* ------------------------------------------------------------ the system

NoEvent ==
    [entry |-> "none", kind |-> "not_trading", confident |-> FALSE, msg_id |-> None,
     order_type |-> "buy", stop_loss |-> None, take_profits |-> <<>>,
     gw |-> FALSE, raised |-> FALSE]

Current ==
    Ctx(state, pending_timeouts, timeout_tasks, tp_verification_timeouts, nextTicket)

\* What the last step handled, when the handling did anything (it called the
\* gateway, raised, or changed the store or a timer): the entry path, the
\* parsed signal's type, confidence and direction, the message id, whether
\* the handling called the gateway or raised, and the SL and TPs an edit
\* pushed to the gateway.  A handling that did nothing leaves no record.
Event(entry, signal, msg_id, R) ==
    IF R = Current THEN NoEvent ELSE
    [entry |-> entry, kind |-> signal.message_type, confident |-> signal.confident,
     msg_id |-> msg_id, order_type |-> signal.order_type,
     stop_loss |-> IF entry = "edit" /\ R.gw THEN signal.stop_loss ELSE None,
     take_profits |-> IF entry = "edit" /\ R.gw THEN signal.take_profits ELSE <<>>,
     gw |-> R.gw, raised |-> R.raised]

\* The handler's effects become the next state.  A handling that called the
\* gateway and was refused counts against the failures of the run.
CountFailure(R, As) ==
    LET refused == R.gw /\ \E i \in 1..Len(As) : Refused(As[i])
    IN  /\ refused => failures < MaxFailures
        /\ failures' = IF refused THEN failures + 1 ELSE failures

Commit(R) ==
    /\ state' = R.state
    /\ pending_timeouts' = R.pending_timeouts
    /\ timeout_tasks' = R.timeout_tasks
    /\ tp_verification_timeouts' = R.tp_verification_timeouts
    /\ nextTicket' = R.nextTicket
    /\ state_file' = R.state_file

Init ==
    /\ state = EmptyState
    /\ pending_timeouts = {}
    /\ timeout_tasks = [msg_id \in MsgIds |-> 0]
    /\ tp_verification_timeouts = {}
    /\ strategy_type \in {"dual_tp", "single"}
    /\ incomplete_signal_timeout = 0
    /\ nextTicket = 1
    /\ now = 0
    /\ edits = 0
    /\ failures = 0
    /\ lastEv = NoEvent
    /\ state_file = MissingFile
    /\ phase = "running"
    /\ connected = TRUE
    /\ inflight = {}

\* A message loop that an exception of a handler leaves: the exception
\* reaches start() and main().
DeliverUncontained(signals) ==
    /\ phase = "running"
    /\ now < MaxTime
    /\ \E sig \in signals, reply_to \in {None} \cup (1..now), c \in BOOLEAN :
       \E As \in (IF c THEN AnswersOf(sig.message_type) ELSE {<<OkAnswers>>}) :
          LET signal == [sig EXCEPT !.confident = c]
              msg_id == now + 1
              R == process_message(Current, msg_id, reply_to, signal, As, now + 1)
          IN  /\ Commit(R)
              /\ CountFailure(R, As)
              /\ now' = now + 1
              /\ lastEv' = Event("new", signal, msg_id, R)
              /\ phase' = IF R.raised THEN "failed" ELSE phase
    /\ UNCHANGED <<strategy_type, incomplete_signal_timeout, edits, connected, inflight>>

\* events.NewMessage -> _handle_new_message -> _process_message, for a
\* message the parser classifies as one of kinds.  The message takes its
\* arrival instant as id.  The handler runs as the callback of its own
\* update: an exception that leaves it ends that callback only.
Deliver(signals) ==
    /\ phase = "running"
    /\ now < MaxTime
    /\ \E sig \in signals, reply_to \in {None} \cup (1..now), c \in BOOLEAN :
       \E As \in (IF c THEN AnswersOf(sig.message_type) ELSE {<<OkAnswers>>}) :
          LET signal == [sig EXCEPT !.confident = c]
              msg_id == now + 1
              R == process_message(Current, msg_id, reply_to, signal, As, now + 1)
          IN  /\ Commit(R)
              /\ CountFailure(R, As)
              /\ now' = now + 1
              /\ lastEv' = Event("new", signal, msg_id, R)
    /\ UNCHANGED <<strategy_type, incomplete_signal_timeout, edits, phase, connected,
                   inflight>>

\* The messages the parser can classify: one set per channel, fixed before
\* the run, so that every handling draws from the same messages.
NewMessageSignals == UNION {SignalsOf(kind) : kind \in MessageTypes}

NewMessage == Deliver(NewMessageSignals)

\* The messages of a channel that posts signals, reports take-profits and
\* closes trades, and corrects its posts by editing them.
SignalMessageSignals ==
    UNION {SignalsOf(kind) :
             kind \in {"new_signal_complete", "profit_notification", "close_signal"}}

SignalMessage == Deliver(SignalMessageSignals)

\* events.MessageEdited -> _handle_edited_message -> _process_edited_message.
EditMessage ==
    /\ phase = "running"
    /\ edits < MaxEdits
    /\ edits' = edits + 1
    /\ \E msg_id \in 1..now, parsed \in BOOLEAN, a \in Uniform :
       \E sig \in (IF parsed THEN EditSignals ELSE {BaseSignal}) :
          LET A == [OkAnswers EXCEPT !.ans = a]
              R == process_edited_message(Current, msg_id, parsed, sig, A, now)
          IN  /\ Commit(R)
              /\ CountFailure(R, <<A>>)
              /\ lastEv' = Event("edit", sig, msg_id, R)
    /\ UNCHANGED <<strategy_type, incomplete_signal_timeout, now, phase, connected,
                   inflight>>

\* The task of _start_timeout wakes up.
TimeoutFires ==
    /\ phase = "running"
    /\ \E msg_id \in {m \in MsgIds : timeout_tasks[m] > 0}, a \in Uniform :
          LET A == [OkAnswers EXCEPT !.ans = a]
              R == timeout_handler(Current, msg_id, A)
          IN  /\ Commit(R)
              /\ CountFailure(R, <<A>>)
              /\ lastEv' = Event("timeout", BaseSignal, msg_id, R)
    /\ UNCHANGED <<strategy_type, incomplete_signal_timeout, now, edits, phase,
                   connected, inflight>>

\* The task of _start_tp_verification_timeout wakes up.
TpVerificationFires ==
    /\ phase = "running"
    /\ \E key \in tp_verification_timeouts, l \in Uniform, a \in Uniform,
          pr \in Uniform :
          LET A == [OkAnswers EXCEPT !.alive = l, !.ans = a, !.profit = pr]
              R == verification_handler(Current, key, A)
          IN  /\ Commit(R)
              /\ CountFailure(R, <<A>>)
              /\ lastEv' = Event("verification", BaseSignal, key[1], R)
    /\ UNCHANGED <<strategy_type, incomplete_signal_timeout, now, edits, phase,
                   connected, inflight>>

\* Time passes without a message.
Tick ==
    /\ phase = "running"
    /\ now < MaxTime
    /\ now' = now + 1
    /\ lastEv' = NoEvent
    /\ UNCHANGED <<state, pending_timeouts, timeout_tasks, tp_verification_timeouts,
                   strategy_type, incomplete_signal_timeout, nextTicket, edits,
                   failures, state_file, phase, connected, inflight>>

\* The bot on a channel whose messages are never edited.
Next ==
    \/ NewMessage
    \/ TimeoutFires
    \/ TpVerificationFires
    \/ Tick

Spec == Init /\ [][Next]_vars

\* The bot on a channel that edits its posts.
NextEdit ==
    \/ SignalMessage
    \/ EditMessage
    \/ TpVerificationFires
    \/ Tick

SpecEdit == Init /\ [][NextEdit]_vars

\* The bot under either setting of the pending-completion timeout: disabled
\* (0, the default) or enabled.
InitTimer ==
    /\ state = EmptyState
    /\ pending_timeouts = {}
    /\ timeout_tasks = [msg_id \in MsgIds |-> 0]
    /\ tp_verification_timeouts = {}
    /\ strategy_type \in {"dual_tp", "single"}
    /\ incomplete_signal_timeout \in 0..1
    /\ nextTicket = 1
    /\ now = 0
    /\ edits = 0
    /\ failures = 0
    /\ lastEv = NoEvent
    /\ state_file = MissingFile
    /\ phase = "running"
    /\ connected = TRUE
    /\ inflight = {}

\* The messages of a channel that enters at market, supplies the levels
\* later, and reports take-profits and partial closes.
TimerMessageSignals ==
    NewSignalIncompleteSignals \cup NewSignalCompleteSignals
        \cup ProfitSignals \cup PartialCloseSignals \cup RepeatedEntrySignals

TimerMessage == Deliver(TimerMessageSignals)

NextTimer ==
    \/ TimerMessage
    \/ TimeoutFires
    \/ TpVerificationFires
    \/ Tick

SpecTimer == InitTimer /\ [][NextTimer]_vars

\* A task of asyncio.create_task whose sleep is over runs unless it was
\* cancelled: a timer that stays armed fires.
SpecTimerFair == SpecTimer /\ WF_vars(TimeoutFires) /\ WF_vars(TpVerificationFires)

\* ------------------------------------------------------------ properties

\* Duals are created by different events, so no two of them have the same
\* earliest opened_at: the order _cleanup_old_records and
\* get_pending_position_by_symbol sort by is total.
NoOpenedAtTies ==
    \A m1 \in DOMAIN state.positions, m2 \in DOMAIN state.positions :
        m1 # m2 =>
            get_earliest_opened(state.positions[m1])
                # get_earliest_opened(state.positions[m2])

\* The keys of the duals that hold a ticket.
Holders(S, ticket) ==
    {m \in DOMAIN S.positions : ticket \in all_tickets(S.positions[m])}

\* Every leg of every stored dual.
AllLegs(S) == UNION {Legs(S.positions[m]) : m \in DOMAIN S.positions}

\* C1: a ticket is a key of ticket_to_msg_id iff it is the ticket of a leg
\* held by exactly one DualPosition of positions, and it maps to that
\* DualPosition's key.
C1_IndexMatchesPositions ==
    /\ \A t \in DOMAIN state.ticket_to_msg_id :
          Holders(state, t) = {state.ticket_to_msg_id[t]}
    /\ \A p \in AllLegs(state) :
          /\ p.mt5_ticket \in DOMAIN state.ticket_to_msg_id
          /\ Cardinality(Holders(state, p.mt5_ticket)) = 1

\* C2: however often a profit notification with the same TP-hit number is
\* delivered to a target, the number occurs at most once in a leg's tps_hit.
C2_TpHitRecordedOnce ==
    \A p \in AllLegs(state) :
        \A i \in 1..Len(p.tps_hit), j \in 1..Len(p.tps_hit) :
            i # j => p.tps_hit[i] # p.tps_hit[j]

\* C3: once a leg has a TP-hit recorded, every later change of its stored
\* stop-loss is protective: non-decreasing for a buy, non-increasing for a
\* sell.
C3_StopLossMonotoneAfterTpHit ==
    [][\A p \in AllLegs(state), q \in AllLegs(state') :
          (p.mt5_ticket = q.mt5_ticket /\ p.tps_hit # <<>>) =>
              IF is_buy(p.order_type) THEN q.stop_loss >= p.stop_loss
              ELSE q.stop_loss <= p.stop_loss]_vars

\* C4: at most one DualPosition per broker symbol has a leg in
\* PENDING_COMPLETION.
C4_OnePendingPerSymbol ==
    \A symbol \in Symbols : Cardinality(PendingKeys(state, symbol)) <= 1

\* C5: for every stored DualPosition, is_closed is true iff every leg present
\* in it is CLOSED; a DualPosition reported closed holds no OPEN or
\* PENDING_COMPLETION leg.
C5_ClosedIffAllLegsClosed ==
    \A m \in DOMAIN state.positions :
        LET dual == state.positions[m]
        IN  /\ is_closed(dual) <=> \A p \in Legs(dual) : p.status = "closed"
            /\ is_closed(dual) =>
                  ~\E p \in Legs(dual) : p.status \in {"open", "pending_completion"}

\* C5 witness: a close signal closed the last open leg of a two-leg dual whose
\* other leg was closed by a TP hit; the dual is reported closed.
C5_Witness ==
    /\ lastEv.entry = "new" /\ lastEv.kind = "close_signal"
    /\ \E m \in DOMAIN state.positions :
          /\ is_closed(state.positions[m])
          /\ Cardinality(Legs(state.positions[m])) = 2
          /\ \E p \in Legs(state.positions[m]) : p.tps_hit # <<>>

\* The pending dual a complete signal of the direction would be matched with,
\* when its direction differs.
MismatchedPending(S, order_type) ==
    LET pending == get_pending_position_by_symbol(S, "XAUUSDb")
    IN  /\ pending # None
        /\ is_buy(all_positions(S.positions[pending])[1].order_type) # is_buy(order_type)

\* C6: the handling of a complete new signal whose direction differs from
\* that of the symbol's pending DualPosition finishes, and the pending
\* DualPosition keeps its key, status and values.
C6_MismatchHandledAsNewSignal ==
    [][(/\ lastEv'.entry = "new"
        /\ lastEv'.kind = "new_signal_complete"
        /\ MismatchedPending(state, lastEv'.order_type)) =>
          LET pending == get_pending_position_by_symbol(state, "XAUUSDb")
          IN  /\ ~lastEv'.raised
              /\ pending \in DOMAIN state'.positions
              /\ state'.positions[pending] = state.positions[pending]]_vars

\* C7: target resolution returns the reply id when it is a key of the store,
\* otherwise the last-signal pointer; it returns none only when the pointer
\* is unset.
C7_TargetResolution ==
    \A reply_to_msg_id \in {None} \cup MsgIds :
        LET target == resolve_target_msg_id(state, reply_to_msg_id)
            tracked == reply_to_msg_id # None
                       /\ reply_to_msg_id \in DOMAIN state.positions
        IN  /\ tracked => target = reply_to_msg_id
            /\ ~tracked => target = state.last_signal_msg_id
            /\ target = None => state.last_signal_msg_id = None

\* C7 witness: a handler acted on a resolved target while the store has an
\* untracked earlier message id, a set pointer and a tracked id that is not
\* the pointer.
C7_Witness ==
    /\ lastEv.entry = "new" /\ lastEv.gw
    /\ lastEv.kind \in {"modification", "close_signal", "profit_notification"}
    /\ state.last_signal_msg_id # None
    /\ \E r \in 1..now : r \notin DOMAIN state.positions
    /\ \E r \in DOMAIN state.positions : r # state.last_signal_msg_id

\* The tracked DualPosition of a message has a leg that is not CLOSED.
TrackedOpen(S, msg_id) ==
    /\ msg_id \in DOMAIN S.positions
    /\ \E p \in Legs(S.positions[msg_id]) : p.status # "closed"

\* C8: an edit delivered now calls the gateway or changes the store only if
\* the edited message has a tracked DualPosition that is not fully closed and
\* at most edit_window_seconds have elapsed since its earliest opened_at; an
\* edit at exactly the window boundary that changes the SL or TPs is processed.
C8_EditOnlyInsideWindow ==
    \A msg_id \in MsgIds :
        /\ \A sig \in EditSignals, a \in Uniform :
              LET A == [OkAnswers EXCEPT !.ans = a]
                  R == process_edited_message(Current, msg_id, TRUE, sig, A, now)
              IN  R # Current =>
                    /\ TrackedOpen(state, msg_id)
                    /\ now - get_earliest_opened(state.positions[msg_id])
                          <= edit_window_seconds
        /\ (/\ TrackedOpen(state, msg_id)
            /\ now - get_earliest_opened(state.positions[msg_id])
                  = edit_window_seconds) =>
              \E sig \in EditSignals :
                  process_edited_message(Current, msg_id, TRUE, sig, OkAnswers, now).gw

\* C8 witness: an edit that arrived at exactly the window boundary called the
\* gateway.
C8_Witness ==
    /\ lastEv.entry = "edit" /\ lastEv.gw
    /\ lastEv.msg_id \in DOMAIN state.positions
    /\ now - get_earliest_opened(state.positions[lastEv.msg_id]) = edit_window_seconds

\* C9: after an edit that pushed an SL and TPs to every open leg of a
\* DualPosition, a second edit of the same message with the same SL and TPs
\* causes no gateway call, whichever legs are already closed.
C9_IdenticalEditIsSilent ==
    [][(/\ lastEv.entry = "edit" /\ lastEv.gw
        /\ lastEv.stop_loss # None /\ lastEv.take_profits # <<>>
        /\ lastEv.msg_id \in DOMAIN state.positions
        /\ \A p \in Legs(state.positions[lastEv.msg_id]) :
              p.status # "closed" =>
                  /\ p.stop_loss = lastEv.stop_loss
                  /\ p.take_profits = lastEv.take_profits
                  /\ p.original_stop_loss = lastEv.stop_loss
                  /\ p.original_take_profits = lastEv.take_profits
        /\ lastEv'.entry = "edit"
        /\ lastEv'.msg_id = lastEv.msg_id
        /\ lastEv'.stop_loss = lastEv.stop_loss
        /\ lastEv'.take_profits = lastEv.take_profits) =>
          ~lastEv'.gw]_vars

\* C10: a handling that called the gateway, changed the store or changed a
\* timer, on the new-message or the edit path, was of a signal with
\* sufficient confidence and a trading message type.
C10_UnconfidentHasNoEffect ==
    lastEv.entry \in {"new", "edit"} =>
        lastEv.confident /\ lastEv.kind # "not_trading"

\* The fields of a leg a gateway call's result is committed to.
CommittedFields(p) ==
    <<p.stop_loss, p.take_profits, p.lot_size, p.status, p.original_stop_loss,
      p.original_take_profits>>

\* C11: when the gateway fails the modify, close or partial close of a leg,
\* the handler (completion, modification, close, partial close) leaves the
\* leg's stop-loss, take-profits, lot size, status and original snapshot as
\* they were: state changes only for legs whose gateway call succeeded.
C11_FailedCallLeavesLegUntouched ==
    \A kind \in {"new_signal_complete", "modification", "close_signal", "partial_close"} :
    \A sig \in SignalsOf(kind), reply_to \in {None} \cup (1..now), a \in SlotAnswers :
        LET A == [OkAnswers EXCEPT !.ans = a]
            R == process_message(Current, now + 1, reply_to, sig, <<A>>, now + 1)
        IN  \A p \in AllLegs(state), q \in AllLegs(R.state) :
                (p.mt5_ticket = q.mt5_ticket /\ ~a[SlotOf(p.role)]) =>
                    CommittedFields(q) = CommittedFields(p)

\* C12: when the broker reports, while a close signal, modification or
\* partial close is handled, that the ticket of a leg of the target no longer
\* exists, the leg is marked CLOSED; it is not left OPEN or
\* PENDING_COMPLETION.
C12_NotFoundMarksLegClosed ==
    \A kind \in {"close_signal", "modification", "partial_close"} :
    \A sig \in SignalsOf(kind), reply_to \in {None} \cup (1..now), l \in SlotAnswers :
        LET A == [OkAnswers EXCEPT !.alive = l]
            target == resolve_target_msg_id(state, reply_to)
            R == process_message(Current, now + 1, reply_to, sig, <<A>>, now + 1)
        IN  (target # None /\ target \in DOMAIN state.positions) =>
                \A p \in Legs(state.positions[target]), q \in AllLegs(R.state) :
                    (/\ p.mt5_ticket = q.mt5_ticket
                     /\ p.status # "closed"
                     /\ ~l[SlotOf(p.role)]) => q.status = "closed"

\* Complete signals whose SL and TPs may be on either side of the entry.
CompletionCandidates ==
    {[BaseSignal EXCEPT !.message_type = "new_signal_complete", !.order_type = o,
                        !.stop_loss = x[1], !.take_profits = y[2]] :
        o \in OrderTypes, x \in Levels, y \in Levels}

\* A price is on the side of the entry a stop-loss (a take-profit) of the
\* direction belongs to.
SlSide(buy, entry, sl) == IF buy THEN sl < entry ELSE sl > entry
TpSide(buy, entry, tp) == IF buy THEN tp > entry ELSE tp < entry

\* C13: when a pending leg is completed, a candidate SL or TP on the wrong
\* side of the leg's entry is dropped while the valid one is applied and the
\* leg keeps its value of the dropped field; when both are invalid the leg's
\* stored SL, TPs and status are untouched.
C13_InvalidCandidateDropped ==
    \A sig \in CompletionCandidates :
        LET pending == get_pending_position_by_symbol(state, sig.symbol)
            R == process_message(Current, now + 1, None, sig, <<OkAnswers>>, now + 1)
        IN  (pending # None /\ ~MismatchedPending(state, sig.order_type)) =>
              \A p \in Legs(state.positions[pending]), q \in AllLegs(R.state) :
                (p.mt5_ticket = q.mt5_ticket /\ p.status = "pending_completion") =>
                  LET buy == is_buy(p.order_type)
                      sl_ok == SlSide(buy, p.entry_price, sig.stop_loss)
                      tp_ok == TpSide(buy, p.entry_price,
                                      RoleTp(p.role, sig.take_profits))
                  IN  /\ (~sl_ok /\ tp_ok) =>
                            /\ q.stop_loss = p.stop_loss
                            /\ q.take_profits = PosTps(p.role, sig.take_profits)
                      /\ (sl_ok /\ ~tp_ok) =>
                            /\ q.stop_loss = sig.stop_loss
                            /\ q.take_profits = p.take_profits
                      /\ (~sl_ok /\ ~tp_ok) =>
                            /\ q.stop_loss = p.stop_loss
                            /\ q.take_profits = p.take_profits
                            /\ q.status = p.status

\* The legs of the target of a message that are not CLOSED.
OpenLegsOf(S, target) ==
    IF target = None \/ target \notin DOMAIN S.positions THEN {}
    ELSE {p \in Legs(S.positions[target]) : p.status # "closed"}

\* The gateway answers a re-entry can meet.
ReEntryAnswers ==
    {[OkAnswers EXCEPT !.alive = l, !.ans = a, !.profit = pr] :
        l \in Uniform, a \in Uniform, pr \in SlotAnswers}

\* C14 as stated: a re-entry closes legs or opens a new position only if no
\* open leg of the target is profitable.
C14_ReEntryOnlyIfNoLegProfitable ==
    \A sig \in ReEntrySignals, reply_to \in {None} \cup (1..now), A \in ReEntryAnswers :
        LET target == resolve_target_msg_id(state, reply_to)
            R == process_message(Current, now + 1, reply_to, sig, <<A>>, now + 1)
        IN  (R.state # state \/ R.nextTicket # nextTicket) =>
                \A p \in OpenLegsOf(state, target) : ~is_position_profitable(A, SlotOf(p.role))

\* C14 amended: a re-entry closes legs or opens a new position only if some
\* open leg of the target is not profitable; when every open leg of the
\* target is profitable no leg is closed and no new leg is opened.
C14_ReEntryOnlyIfSomeLegInLoss ==
    \A sig \in ReEntrySignals, reply_to \in {None} \cup (1..now), A \in ReEntryAnswers :
        LET target == resolve_target_msg_id(state, reply_to)
            R == process_message(Current, now + 1, reply_to, sig, <<A>>, now + 1)
        IN  /\ (R.state # state \/ R.nextTicket # nextTicket) =>
                  \E p \in OpenLegsOf(state, target) : ~is_position_profitable(A, SlotOf(p.role))
            /\ (\A p \in OpenLegsOf(state, target) :
                    is_position_profitable(A, SlotOf(p.role))) =>
                  /\ R.state = state
                  /\ R.nextTicket = nextTicket

\* C14 witness: a re-entry closed the legs of its target and opened a new
\* position under its own message id.
C14_Witness ==
    /\ lastEv.entry = "new" /\ lastEv.kind = "re_entry" /\ lastEv.gw
    /\ lastEv.msg_id \in DOMAIN state.positions
    /\ \E m \in DOMAIN state.positions :
          /\ m # lastEv.msg_id
          /\ is_closed(state.positions[m])
          /\ Legs(state.positions[m]) # {}

\* The messages whose handlers act on a tracked target.
TargetingSignals ==
    ModificationSignals \cup ReEntrySignals \cup ProfitSignals \cup CloseSignals
    \cup PartialCloseSignals \cup CompoundSignals

\* C15: once a MODIFICATION, RE_ENTRY, PROFIT_NOTIFICATION, CLOSE_SIGNAL,
\* PARTIAL_CLOSE or COMPOUND_ACTION handler has acted on a target (it changed
\* a leg of it), no pending-completion timer of the target is left armed:
\* the key is out of the registry and no task sleeps on it, so no timer can
\* force-close a leg of the target afterwards.
C15_HandlerCancelsPendingTimer ==
    \A sig \in TargetingSignals, reply_to \in {None} \cup (1..now) :
    \A As \in AnswersOf(sig.message_type) :
        LET target == resolve_target_msg_id(state, reply_to)
            R == process_message(Current, now + 1, reply_to, sig, As, now + 1)
        IN  (/\ now < MaxTime
             /\ target \in DOMAIN state.positions
             /\ target \in DOMAIN R.state.positions
             /\ R.state.positions[target] # state.positions[target]) =>
                /\ target \notin R.pending_timeouts
                /\ R.timeout_tasks[target] = 0

\* The step is a pending-completion timer force-closing a leg: the leg was
\* PENDING_COMPLETION before the timer fired and is CLOSED after it.
TimeoutForceCloses ==
    /\ lastEv'.entry = "timeout"
    /\ \E m \in DOMAIN state.positions \cap DOMAIN state'.positions, slot \in Slots :
          /\ state.positions[m][slot] # <<>>
          /\ state'.positions[m][slot] # <<>>
          /\ state.positions[m][slot][1].status = "pending_completion"
          /\ state'.positions[m][slot][1].status = "closed"

\* C16: with a timeout duration of 0 the pending-completion timeout is
\* disabled: no step leaves a timer task registered or asleep, and no
\* PENDING_COMPLETION leg is force-closed by a timeout.
C16_ZeroTimeoutDisablesTimer ==
    [][incomplete_signal_timeout = 0 =>
          /\ pending_timeouts' = {}
          /\ \A m \in MsgIds : timeout_tasks'[m] = 0
          /\ ~TimeoutForceCloses]_vars

\* The leg with the ticket is tracked and still PENDING_COMPLETION.
PendingLeg(ticket) ==
    \E p \in AllLegs(state) : p.mt5_ticket = ticket /\ p.status = "pending_completion"

\* C17: with a timeout duration above 0, every leg an incomplete signal
\* opened is eventually completed or force-closed: it does not stay
\* PENDING_COMPLETION for ever, whichever sibling legs failed to open and
\* whichever completion attempts failed in between.
C17_PendingLegEventuallyClosed ==
    \A ticket \in 1..MaxTickets :
        (incomplete_signal_timeout > 0 /\ PendingLeg(ticket)) ~> ~PendingLeg(ticket)

\* C18: under every key at most one pending-completion task is alive, and
\* it is the one the registry refers to: a task is asleep under a key iff
\* the key is in the registry, so a superseded task is cancelled and never
\* fires.
C18_OneLiveTaskPerKey ==
    \A m \in MsgIds :
        /\ timeout_tasks[m] <= 1
        /\ timeout_tasks[m] = 1 <=> m \in pending_timeouts

\* The slots whose leg the handler's result differs in: <<msg_id, slot>>.
ChangedSlots(R) ==
    {x \in (DOMAIN state.positions \cap DOMAIN R.state.positions) \X Slots :
        R.state.positions[x[1]][x[2]] # state.positions[x[1]][x[2]]}

\* C19: a deferred timer that fires works on the store as it is then.  The
\* pending-completion timer calls the gateway only if its position is still
\* tracked with a leg still PENDING_COMPLETION, and changes only such legs,
\* to CLOSED; the TP-verification timer calls the gateway only if its ticket
\* is still tracked on a leg that is not CLOSED, and changes only that leg,
\* to CLOSED.  A leg completed, closed or removed in the meantime is left
\* as it is.
C19_TimersRecheckTheStore ==
    /\ \A m \in MsgIds, a \in Uniform :
          timeout_tasks[m] > 0 =>
            LET A == [OkAnswers EXCEPT !.ans = a]
                R == timeout_handler(Current, m, A)
            IN  /\ R.gw =>
                      /\ m \in DOMAIN state.positions
                      /\ \E p \in Legs(state.positions[m]) :
                            p.status = "pending_completion"
                /\ \A x \in ChangedSlots(R) :
                      LET old == state.positions[x[1]][x[2]]
                      IN  /\ x[1] = m
                          /\ old # <<>>
                          /\ old[1].status = "pending_completion"
                          /\ R.state.positions[x[1]][x[2]] =
                                <<[old[1] EXCEPT !.status = "closed"]>>
    /\ \A key \in tp_verification_timeouts, l \in Uniform, a \in Uniform,
          pr \in Uniform :
            LET A == [OkAnswers EXCEPT !.alive = l, !.ans = a, !.profit = pr]
                R == verification_handler(Current, key, A)
            IN  /\ R.gw =>
                      \E p \in AllLegs(state) :
                          p.mt5_ticket = key[2] /\ p.status # "closed"
                /\ \A x \in ChangedSlots(R) :
                      LET old == state.positions[x[1]][x[2]]
                      IN  /\ old # <<>>
                          /\ old[1].mt5_ticket = key[2]
                          /\ old[1].status # "closed"
                          /\ R.state.positions[x[1]][x[2]] =
                                <<[old[1] EXCEPT !.status = "closed"]>>

\* C19 witness: a TP-verification timer fired for a position whose legs had
\* all been closed in the meantime, and made no gateway call.
C19_Witness ==
    /\ lastEv.entry = "verification" /\ ~lastEv.gw
    /\ lastEv.msg_id \in DOMAIN state.positions
    /\ Legs(state.positions[lastEv.msg_id]) # {}
    /\ is_closed(state.positions[lastEv.msg_id])

\* C20: when a TP-verification timer fires for a leg that is tracked, not
\* CLOSED and still open at the broker, and the position is at a loss, the
\* handler changes nothing in the store: the leg is not closed and keeps its
\* status.  The leg is force-closed only if the position is not at a loss.
C20_VerificationClosesOnlyIfSafe ==
    \A key \in tp_verification_timeouts, l \in Uniform, a \in Uniform, pr \in Uniform :
        LET A == [OkAnswers EXCEPT !.alive = l, !.ans = a, !.profit = pr]
            R == verification_handler(Current, key, A)
            found == get_position_by_ticket(state, key[2])
        IN  found # <<>> =>
              LET slot == found[2]
                  pos == state.positions[found[1]][slot][1]
              IN  (pos.status # "closed" /\ get_position(A, slot)) =>
                      /\ ~would_close_profitably(A, slot) => R.state = state
                      /\ R.state # state =>
                            /\ would_close_profitably(A, slot)
                            /\ R.state.positions[found[1]][slot][1].status = "closed"

\* C20 witness: a TP-verification timer fired for a leg the broker still
\* holds and left the position open: no leg of it is CLOSED.
C20_Witness ==
    /\ lastEv.entry = "verification" /\ lastEv.gw
    /\ lastEv.msg_id \in DOMAIN state.positions
    /\ Legs(state.positions[lastEv.msg_id]) # {}
    /\ \A p \in Legs(state.positions[lastEv.msg_id]) : p.status # "closed"

\* ------------------------------------------------------- the strategy plan

\* New signals and re-entries with no, one or two take-profits, with and
\* without a stop-loss.
PlanSignals ==
    {[BaseSignal EXCEPT !.message_type = k, !.stop_loss = sl, !.take_profits = tps] :
        k \in {"new_signal_complete", "new_signal_incomplete", "re_entry"},
        sl \in {None, 4},
        tps \in {<<>>, <<6>>, <<6, 7>>}}

\* C29: under the dual-leg policy the plan for a new signal that is not a
\* re-entry has exactly two legs, a scalp leg whose TP is the first element
\* of the signal's take-profits and a runner leg whose TP is the last element
\* (no TP only when the signal has no take-profits), both with the signal's
\* stop-loss; the plan for a re-entry has exactly one leg.
C29_DualLegPlan ==
    strategy_type = "dual_tp" =>
        \A signal \in PlanSignals :
            LET plan == get_trades_to_open(strategy_type, signal)
                T == signal.take_profits
            IN  IF signal.message_type = "re_entry" THEN Len(plan) = 1
                ELSE /\ Len(plan) = 2
                     /\ plan[1].role = "scalp" /\ plan[1].tp = First(T)
                     /\ plan[2].role = "runner" /\ plan[2].tp = Last(T)
                     /\ plan[1].sl = signal.stop_loss
                     /\ plan[2].sl = signal.stop_loss

\* ---------------------------------------------------- the take-profit hits

\* A profit notification that reports the hit of take-profit number n.
TpHit(n) ==
    [BaseSignal EXCEPT !.message_type = "profit_notification", !.tp_hit_number = n]

\* The gateway answers a profit notification's handler can meet: which legs
\* the broker still holds, and whether it carries out a modification.
TpAnswers ==
    {[OkAnswers EXCEPT !.alive = l, !.ans = a] : l \in SlotAnswers, a \in Uniform}

\* The keys of the duals whose scalp and runner legs are both OPEN.
BothLegsOpen ==
    {m \in DOMAIN state.positions :
        \A slot \in Slots :
            /\ state.positions[m][slot] # <<>>
            /\ state.positions[m][slot][1].status = "open"}

\* The handler's context after the TP-hit #1 notification for the dual under
\* m, with the gateway answers A, and after the TP-hit #2 notification that
\* follows it, with the gateway answers A2.
AfterTp1(m, A) == handle_profit_notification(Current, m, TpHit(1), A)
AfterTp2(m, A, A2) ==
    handle_profit_notification(AfterTp1(m, A), m, TpHit(2), A2)

\* The outcome C30 describes for the dual under m.
TpScenarioHolds(m, A, A2) ==
    LET d1 == AfterTp1(m, A).state.positions[m]
        d2 == AfterTp2(m, A, A2).state.positions[m]
    IN  /\ d1.scalp[1].status = "closed"
        /\ d1.runner[1].stop_loss = d1.runner[1].entry_price
        /\ d2.runner[1].status = "closed"
        /\ is_closed(d2)

TrackedNewSignal(signal) ==
    OpenTrades([Current EXCEPT !.gw = TRUE], now + 1, signal, TRUE,
               get_trades_to_open(strategy_type, signal), AllTrue, now + 1).state

\* The keys save() evicts from the store S.
Evicted(S) == DOMAIN S.positions \ DOMAIN save(S).positions

\* C24: save() evicts only when the store holds more than the maximum, the
\* oldest first by earliest leg open time, and only closed duals: a dual that
\* holds an OPEN or PENDING_COMPLETION leg is never evicted.
C24_EvictsOnlyClosed ==
    \A signal \in NewSignalCompleteSignals :
        (/\ now < MaxTime /\ nextTicket <= MaxTickets
         /\ get_pending_position_by_symbol(state, signal.symbol) = None) =>
            LET S == TrackedNewSignal(signal)
            IN  /\ Evicted(S) # {} => Cardinality(DOMAIN S.positions) > MAX_RECORDS
                /\ \A m \in Evicted(S) :
                      /\ is_closed(S.positions[m])
                      /\ \A k \in DOMAIN save(S).positions :
                            is_closed(S.positions[k]) =>
                                get_earliest_opened(S.positions[m])
                                    < get_earliest_opened(S.positions[k])

\* ------------------------------------------------------------ persistence

\* C28: after every event handler or timer callback that changed the store,
\* the snapshot in the state file is the in-memory store: the file holds the
\* dump of the store, unless the store was never changed and no file was
\* written.
C28_FileIsTheStore ==
    phase = "running" =>
        \/ state_file = written(state)
        \/ state_file = MissingFile /\ state = EmptyState

\* C28 witness: a handler changed a leg of a tracked position (a take-profit
\* hit is recorded on it) and the file holds the store.
C28_Witness ==
    /\ lastEv.kind = "profit_notification" /\ lastEv.gw
    /\ \E p \in AllLegs(state) : p.tps_hit # <<>>
    /\ state_file = written(state)

\* C25: save() followed by load() into a fresh store gives back the store:
\* the same positions, reverse index and last-signal pointer.
C25_SaveLoadRoundTrip ==
    phase = "running" =>
        LET S == save(state)
            R == load(EmptyState, written(S))
        IN  ~R.raised /\ R.state = S

\* ------------------------------------------------------------ lifecycle

\* An entry of a v1 snapshot (the v1 TrackedPosition.to_dict): a single
\* position per message id, without role, tps_hit and original levels.
V1Position(ticket, order_type, stop_loss, take_profits, opened_at, status) ==
    [mt5_ticket |-> ticket, symbol |-> "XAUUSDb", order_type |-> order_type,
     entry_price |-> FillPrice, stop_loss |-> stop_loss, take_profits |-> take_profits,
     lot_size |-> FillVolume, opened_at |-> isoformat(opened_at),
     is_complete |-> status # "pending_completion", status |-> status]

\* v1 snapshots (the v1 BotState.save): of one position, in any status, and
\* of two positions.
V1Snapshots ==
    {[version |-> 1, last_signal_msg_id |-> 1,
      positions |-> (str(1) :> e),
      ticket_to_msg_id |-> (str(1) :> 1)] :
        e \in {V1Position(1, o, LevelsOf(o)[1], LevelsOf(o)[2], 1, status) :
                  o \in OrderTypes, status \in {"open", "closed"}}
               \cup {V1Position(1, "buy", None, <<>>, 1, "pending_completion")}}
    \cup {[version |-> 1, last_signal_msg_id |-> last,
           positions |-> (str(1) :> e1) @@ (str(2) :> e2),
           ticket_to_msg_id |-> (str(1) :> 1) @@ (str(2) :> 2)] :
            e1 \in {V1Position(1, "buy", 4, <<6, 7>>, 1, "closed")},
            e2 \in {V1Position(2, "sell", 6, <<4, 3>>, 2, "open")},
            last \in {None, 2}}

\* A store of the current bot: one dual with both legs open.
OneDualStore ==
    LET leg(ticket, role) ==
            TrackedPosition(ticket, "XAUUSDb", "buy", FillPrice, 4,
                            PosTps(role, <<6, 7>>), FillVolume, 1, TRUE, "open",
                            role, 4, <<6, 7>>)
    IN  add_position(add_position(EmptyState, 1, leg(1, "scalp"), "scalp"),
                     1, leg(2, "runner"), "runner")

\* The state files the bot can find when it starts.
StateFiles ==
    {MissingFile}
    \cup {BrokenFile(k) :
            k \in {"empty", "corrupted", "missing_key", "bad_value", "not_object"}}
    \cup {[kind |-> "snapshot", data |-> d] : d \in V1Snapshots}
    \cup {written(OneDualStore)}

\* The process before main() runs: the store is fresh, the clock and the
\* broker's tickets are past the ones in the file.
InitStore ==
    /\ state = EmptyState
    /\ pending_timeouts = {}
    /\ timeout_tasks = [msg_id \in MsgIds |-> 0]
    /\ tp_verification_timeouts = {}
    /\ strategy_type = "dual_tp"
    /\ incomplete_signal_timeout = 1
    /\ state_file \in StateFiles
    /\ nextTicket = Cardinality(DOMAIN load(EmptyState, state_file).state.ticket_to_msg_id) + 1
    /\ now = Cardinality(DOMAIN state_file.data.positions)
    /\ edits = 0
    /\ failures = 0
    /\ lastEv = NoEvent
    /\ phase = "init"
    /\ connected = FALSE
    /\ inflight = {}

\* start(), lines 205-214: load the state file, then connect the executor.
\* An exception of load() leaves start() and main() runs stop().
Start ==
    /\ phase = "init"
    /\ LET R == load(state, state_file)
       IN  /\ state' = R.state
           /\ phase' = IF R.raised THEN "failed" ELSE "running"
           /\ connected' = ~R.raised
           /\ lastEv' = [NoEvent EXCEPT !.entry = "start", !.raised = R.raised]
    /\ UNCHANGED <<pending_timeouts, timeout_tasks, tp_verification_timeouts,
                   strategy_type, incomplete_signal_timeout, nextTicket, now, edits,
                   failures, state_file, inflight>>

\* stop(), lines 1410-1418: every task of the two registries is cancelled and
\* the registries are cleared.  A task that lost its registry entry is not
\* reached.
stop_timeouts(C) ==
    [C EXCEPT !.pending_timeouts = {},
              !.timeout_tasks = [m \in MsgIds |->
                                    IF m \in C.pending_timeouts THEN @[m] - 1 ELSE @[m]],
              !.tp_verification_timeouts = {}]

\* stop() is called from main() and runs without an await: nothing runs
\* between its steps.  First step: the timers.
StopTimers ==
    /\ phase \in {"running", "failed"}
    /\ Commit(stop_timeouts(Current))
    /\ phase' = "cancelled"
    /\ lastEv' = [NoEvent EXCEPT !.entry = "stop"]
    /\ UNCHANGED <<strategy_type, incomplete_signal_timeout, now, edits, failures,
                   connected, inflight>>

\* stop(), line 1424: self.state.save().
StopSave ==
    /\ phase = "cancelled"
    /\ state' = save(state)
    /\ state_file' = written(save(state))
    /\ phase' = "saved"
    /\ lastEv' = [NoEvent EXCEPT !.entry = "stop"]
    /\ UNCHANGED <<pending_timeouts, timeout_tasks, tp_verification_timeouts,
                   strategy_type, incomplete_signal_timeout, nextTicket, now, edits,
                   failures, connected, inflight>>

\* stop(), line 1425: self.executor.disconnect().  main() returns and
\* asyncio.run cancels the tasks that are left.
StopDisconnect ==
    /\ phase = "saved"
    /\ connected' = FALSE
    /\ phase' = "stopped"
    /\ timeout_tasks' = [m \in MsgIds |-> 0]
    /\ lastEv' = [NoEvent EXCEPT !.entry = "stop"]
    /\ UNCHANGED <<state, pending_timeouts, tp_verification_timeouts, strategy_type,
                   incomplete_signal_timeout, nextTicket, now, edits, failures,
                   state_file, inflight>>

\* The messages of a channel that enters at market and reports take-profits.
StoreMessageSignals ==
    NewSignalIncompleteSignals \cup {TpHit(1)} \cup RepeatedEntrySignals

StoreMessage == Deliver(StoreMessageSignals)

NextStore ==
    \/ Start
    \/ StoreMessage
    \/ TimeoutFires
    \/ TpVerificationFires
    \/ Tick
    \/ StopTimers
    \/ StopSave
    \/ StopDisconnect

\* The bot from the start of the process to its end.
SpecStore == InitStore /\ [][NextStore]_vars

\* The state file the process started from is a v1 snapshot, and start() has
\* just loaded it.
StartedFromV1 ==
    /\ lastEv.entry = "start"
    /\ state_file.kind = "snapshot"
    /\ state_file.data.version = 1

\* C26: loading a v1 snapshot gives, for every v1 entry, a DualPosition under
\* the same key that holds exactly one leg with every v1 field value
\* unchanged, a reverse-index entry from the leg's ticket to the key, and the
\* v1 last-signal pointer; no entry is lost or added, and the outcome is a
\* function of the snapshot.
C26_V1MigrationKeepsEveryEntry ==
    StartedFromV1 =>
        LET data == state_file.data
        IN  /\ ~lastEv.raised
            /\ DOMAIN state.positions = {int(k) : k \in DOMAIN data.positions}
            /\ \A k \in DOMAIN data.positions :
                  LET v1 == data.positions[k]
                      legs == all_positions(state.positions[int(k)])
                  IN  /\ Len(legs) = 1
                      /\ \A f \in DOMAIN v1 \ {"opened_at"} : legs[1][f] = v1[f]
                      /\ isoformat(legs[1].opened_at) = v1.opened_at
                      /\ v1.mt5_ticket \in DOMAIN state.ticket_to_msg_id
                      /\ state.ticket_to_msg_id[v1.mt5_ticket] = int(k)
            /\ DOMAIN state.ticket_to_msg_id =
                  {data.positions[k].mt5_ticket : k \in DOMAIN data.positions}
            /\ state.last_signal_msg_id = data.last_signal_msg_id
            /\ state = load(EmptyState, state_file).state

\* C26 witness: a v1 snapshot of two positions was loaded.
C26_Witness ==
    /\ StartedFromV1
    /\ Cardinality(DOMAIN state_file.data.positions) = 2
    /\ Cardinality(DOMAIN state.positions) = 2

\* C27: load() on a missing, empty, corrupted or malformed snapshot returns
\* without raising and leaves the store empty.
C27_LoadNeverRaises ==
    (lastEv.entry = "start" /\ state_file.kind # "snapshot") =>
        ~lastEv.raised /\ state = EmptyState

\* C21: on shutdown the timers are cancelled first, then the store is
\* persisted, then the gateway connection is released, and from the moment
\* the shutdown begins no timer callback acts on the store or the gateway.
C21_ShutdownOrder ==
    [][/\ phase' = "cancelled" =>
            /\ pending_timeouts' = {} /\ tp_verification_timeouts' = {}
            /\ \A m \in MsgIds : timeout_tasks'[m] = 0
       /\ (phase # "running" /\ state_file' # state_file) =>
            /\ pending_timeouts = {} /\ tp_verification_timeouts = {}
            /\ state_file' = written(state)
            /\ connected' = connected
       /\ (connected /\ ~connected') =>
            /\ pending_timeouts = {} /\ tp_verification_timeouts = {}
            /\ state_file = written(state)
       /\ phase \notin {"init", "running"} =>
            /\ state' = state
            /\ ~lastEv'.gw
            /\ lastEv'.entry \notin {"timeout", "verification"}]_vars

\* ------------------------------------------------- handlers that overlap

\* The client is built without sequential_updates (bot.py:166-175): every
\* update gets a task of its own, and _process_message suspends at
\* `await self.parser.parse_signal(text)` before it routes the signal.

\* The messages of a channel that posts signals and closes trades.
ArriveSignals == NewSignalCompleteSignals \cup CloseSignals

\* events.NewMessage, lines 336-344: the handler task of a message starts and
\* awaits the parser.
Arrive ==
    /\ phase = "running"
    /\ now < MaxTime
    /\ \E sig \in ArriveSignals, reply_to \in {None} \cup (1..now) :
          inflight' = inflight \cup
                        {[msg_id |-> now + 1, reply_to |-> reply_to, signal |-> sig]}
    /\ now' = now + 1
    /\ lastEv' = NoEvent
    /\ UNCHANGED <<state, pending_timeouts, timeout_tasks, tp_verification_timeouts,
                   strategy_type, incomplete_signal_timeout, nextTicket, edits,
                   failures, state_file, phase, connected>>

\* Lines 345-362: the parser's answer for one of the waiting handlers
\* arrives and the handler runs to its end, at a later instant.
Route ==
    /\ phase = "running"
    /\ now < MaxTime
    /\ \E msg \in inflight : \E As \in AnswersOf(msg.signal.message_type) :
          LET R == process_message(Current, msg.msg_id, msg.reply_to, msg.signal,
                                   As, now + 1)
          IN  /\ Commit(R)
              /\ CountFailure(R, As)
              /\ lastEv' = Event("new", msg.signal, msg.msg_id, R)
              /\ inflight' = inflight \ {msg}
    /\ now' = now + 1
    /\ UNCHANGED <<strategy_type, incomplete_signal_timeout, edits, phase, connected>>

NextAsync ==
    \/ Arrive
    \/ Route

\* The bot with the parser's latency: a message can arrive while the handler
\* of an earlier one waits for the parser.
SpecAsync == Init /\ [][NextAsync]_vars

\* C22: events are handled one at a time in arrival order: no handler starts
\* while another is in progress, the handler that goes on to resolve its
\* target and change the store is that of the oldest message, and so a
\* follow-up is never resolved against a store that lacks the position of an
\* earlier new signal still being handled.
C22_HandledInArrivalOrder ==
    [][/\ Cardinality(inflight') <= 1
       /\ \A msg \in inflight \ inflight' :
             \A other \in inflight' : msg.msg_id < other.msg_id]_vars

\* ----------------------------------------------------- failure isolation

get_new_tp(signal, pos) ==
    IF signal.new_take_profit # None THEN signal.new_take_profit
    ELSE IF signal.take_profits # <<>> THEN signal.take_profits[1]
    ELSE IF pos.take_profits # <<>> THEN pos.take_profits[1]
    ELSE None

\* A modification that sends the first take-profit of the list for every leg.
ModifyRequestFirstTp(signal, pos) ==
    [ticket |-> pos.mt5_ticket,
     sl |-> Or(Or(signal.new_stop_loss, signal.stop_loss), pos.stop_loss),
     tp |-> IF signal.take_profits # <<>> THEN signal.take_profits[1]
            ELSE get_new_tp(signal, pos)]

\* _handle_modification, lines 857-872: the modify_position call for one leg.
ModifyRequest(signal, pos) ==
    LET new_sl == Or(signal.new_stop_loss, signal.stop_loss)
        new_tp == IF pos.role = "runner"
                  THEN IF signal.take_profits # <<>> THEN Last(signal.take_profits)
                       ELSE get_new_tp(signal, pos)
                  ELSE IF signal.take_profits # <<>> THEN signal.take_profits[1]
                       ELSE get_new_tp(signal, pos)
    IN  [ticket |-> pos.mt5_ticket, sl |-> Or(new_sl, pos.stop_loss), tp |-> new_tp]

\* _handle_modification, lines 844-872: the modify_position calls of one
\* handling, none for a target that is missing or not tracked.
modification_requests(S, target_msg_id, signal) ==
    IF target_msg_id = None \/ target_msg_id \notin DOMAIN S.positions THEN {}
    ELSE {ModifyRequest(signal, pos) :
            pos \in {q \in Legs(S.positions[target_msg_id]) : q.status # "closed"}}

modify_position(held, sl, tp) ==
    [sl |-> IF sl # None THEN sl ELSE held.sl,
     tp |-> IF tp # None THEN tp ELSE held.tp]

\* execute_dual_signal: the stop-loss and take-profit the broker holds for
\* the trade of a role once the trade of the plan is opened.
HeldAfterOpen(signal, role) ==
    LET configs == get_trades_to_open(strategy_type, signal)
        cfg == CHOOSE c \in {configs[i] : i \in 1..Len(configs)} : c.role = role
    IN  [sl |-> cfg.sl, tp |-> cfg.tp]

\* Modifications that carry a new stop-loss and nothing else.
StopLossOnlySignals ==
    {s \in ModificationSignals :
        s.new_stop_loss # None /\ s.take_profits = <<>> /\ s.new_take_profit = None}

\* C40: a MODIFICATION that carries only a new stop-loss leaves the
\* take-profit the broker holds for every open leg of the target unchanged:
\* for the legs a complete signal has just opened, the take-profit after the
\* modify is the take-profit the leg was opened with (the last one for the
\* runner).
C40_StopLossOnlyKeepsTakeProfit ==
    \A signal \in NewSignalCompleteSignals : \A mod \in StopLossOnlySignals :
        (/\ now < MaxTime /\ nextTicket < MaxTickets
         /\ get_pending_position_by_symbol(state, signal.symbol) = None) =>
            LET S == TrackedNewSignal(signal)
            IN  \A pos \in Legs(S.positions[now + 1]) :
                    LET held == HeldAfterOpen(signal, pos.role)
                        req  == ModifyRequest(mod, pos)
                    IN  modify_position(held, req.sl, req.tp).tp = held.tp

\* Complete signals whose levels need not suit the direction of the trade
\* they complete.
CompletionSignals ==
    {[BaseSignal EXCEPT !.message_type = "new_signal_complete", !.order_type = o,
                        !.stop_loss = sl, !.take_profits = tps] :
        o \in OrderTypes, sl \in {4, 6}, tps \in {<<6, 7>>, <<4, 3>>}}

\* The store once _handle_new_signal has tracked the trades of an incomplete
\* signal, opened with the default levels, when the message arrives next.
TrackedIncompleteSignal(signal) ==
    OpenTrades([Current EXCEPT !.gw = TRUE], now + 1, WithDefaults(signal, OkAnswers),
               FALSE, get_trades_to_open(strategy_type, WithDefaults(signal, OkAnswers)),
               AllTrue, now + 1).state

\* C39: after a handler completes, the stop-loss stored for a leg that is
\* not closed is the stop-loss the broker holds for its ticket: for the
\* legs an incomplete signal has just opened and a complete signal then
\* completes, the stored stop-loss is the one the broker holds after the
\* completion's modify (or still the opening one when no modify is sent).
C39_StoredStopLossIsTheBrokers ==
    \A inc \in NewSignalIncompleteSignals : \A signal \in CompletionSignals :
        (/\ now < MaxTime /\ nextTicket < MaxTickets
         /\ get_pending_position_by_symbol(state, inc.symbol) = None) =>
            LET S  == TrackedIncompleteSignal(inc)
                C1 == [Current EXCEPT !.state = S]
            IN  \A slot \in Slots :
                    S.positions[now + 1][slot] # <<>> =>
                        LET pos  == S.positions[now + 1][slot][1]
                            held == HeldAfterOpen(WithDefaults(inc, OkAnswers), pos.role)
                            v    == validate_sl_tp(is_buy(pos.order_type), pos.entry_price,
                                                   signal.stop_loss,
                                                   RoleTp(pos.role, signal.take_profits))
                            sent == ~(v.sl = None /\ v.tp = None)
                            at_broker == IF sent THEN modify_position(held, v.sl, v.tp)
                                         ELSE held
                            pos2 == CompleteLeg(C1, OkAnswers, signal, pos, slot)
                        IN  /\ pos.stop_loss = held.sl
                            /\ pos2.status # "closed" => pos2.stop_loss = at_broker.sl

\* ------------------------------------------------ compound-action calls

\* _handle_compound_action, lines 1180-1200: the gateway modifies of the
\* modification sub-actions, in the order they are issued.
RECURSIVE CompoundModCalls(_, _, _)
CompoundModCalls(C, target_msg_id, mods) ==
    IF mods = <<>> THEN <<>>
    ELSE LET slot == IF target_msg_id # None
                        /\ target_msg_id \in DOMAIN C.state.positions
                     THEN C.state.positions[target_msg_id].scalp ELSE <<>>
         IN  (IF NotClosed(slot)
              THEN <<[op |-> "modify", ticket |-> slot[1].mt5_ticket,
                      sl |-> Head(mods).new_stop_loss]>>
              ELSE <<>>)
             \o CompoundModCalls(C, target_msg_id, Tail(mods))

\* _handle_compound_action, lines 1203-1261, and _handle_new_signal, lines
\* 560-603: the gateway opens of the new-signal sub-actions, in the order
\* they are issued, each with the stop-loss of the signal it is built from
\* (None: the order carries no stop-loss).  A sub-action that completes a
\* pending position opens nothing.
RECURSIVE CompoundNewCalls(_, _, _, _, _, _, _)
CompoundNewCalls(C, msg_id, signal, news, As, modification_sl, at) ==
    IF news = <<>> \/ C.raised THEN <<>>
    ELSE LET action == Head(news)
             sl0 == Or(action.stop_loss, modification_sl)
             pending_sl == IF sl0 = None /\ action.entry_price # None
                           THEN calculate_default_sl(action.order_type,
                                                     action.entry_price)
                           ELSE sl0
             pending_signal ==
                 [BaseSignal EXCEPT
                    !.symbol = signal.symbol,
                    !.order_type = action.order_type,
                    !.stop_loss = pending_sl,
                    !.take_profits = action.take_profits,
                    !.message_type = "new_signal_complete"]
             is_complete == pending_sl # None /\ action.take_profits # <<>>
             pending == get_pending_position_by_symbol(C.state, signal.symbol)
             sig == IF is_complete THEN pending_signal
                    ELSE WithDefaults(pending_signal, Head(As))
             opens == signal.symbol \in Symbols /\ ~(pending # None /\ is_complete)
             C1 == handle_new_signal(C, msg_id, pending_signal, is_complete,
                                     Head(As), 0, at)
         IN  (IF opens
              THEN <<[op |-> "open", ticket |-> None, sl |-> sig.stop_loss]>>
              ELSE <<>>)
             \o CompoundNewCalls(C1, msg_id, signal, Tail(news), Tail(As),
                                 modification_sl, at)

\* A compound handler that works through the sub-actions in the order of the
\* message.
RECURSIVE compound_calls_in_order(_, _, _, _, _, _)
compound_calls_in_order(C, msg_id, target_msg_id, signal, As, at) ==
    IF signal.actions = <<>> THEN <<>>
    ELSE LET action == Head(signal.actions)
             rest == [signal EXCEPT !.actions = Tail(@)]
         IN  IF IsMod(action)
             THEN CompoundModCalls(C, target_msg_id, <<action>>)
                  \o compound_calls_in_order(
                         CompoundMods(C, target_msg_id, <<action>>, Head(As), None).ctx,
                         msg_id, target_msg_id, rest, As, at)
             ELSE CompoundNewCalls(C, msg_id, signal, <<action>>, As, None, at)
                  \o compound_calls_in_order(
                         CompoundNews(C, msg_id, signal, <<action>>, As, None, at),
                         msg_id, target_msg_id, rest, As, at)

\* _handle_compound_action: the gateway calls of one handling, in order.
compound_calls(C, msg_id, target_msg_id, signal, As, at) ==
    IF signal.actions = <<>> THEN <<>>
    ELSE LET mods == SelectSeq(signal.actions, IsMod)
             news == SelectSeq(signal.actions, IsNew)
             m == CompoundMods(C, target_msg_id, mods, Head(As), None)
         IN  CompoundModCalls(C, target_msg_id, mods)
             \o CompoundNewCalls(m.ctx, msg_id, signal, news, As, m.modification_sl, at)

\* Compound messages of one modification (new stop-loss 6) and one sell
\* without a stop-loss of its own, in either order.
OrderedCompoundSignals ==
    {[BaseSignal EXCEPT !.message_type = "compound_action", !.actions = acts] :
        acts \in {<<ModAction(6), NewAction("sell", None, <<4>>, None)>>,
                  <<NewAction("sell", None, <<4>>, None), ModAction(6)>>}}

build_order_request_tp(buy, entry_price, take_profits, stop_loss) ==
    LET T == {take_profits[i] : i \in 1..Len(take_profits)}
    IN  [tp |-> IF take_profits = <<>> THEN None
                ELSE IF buy THEN CHOOSE x \in T : \A y \in T : x <= y
                ELSE CHOOSE x \in T : \A y \in T : x >= y,
         warning |-> FALSE]

\* Take-profit lists of up to two prices around the entry price 5.
TpLists ==
    {<<>>} \cup {<<a>> : a \in {3, 4, 6, 7}}
           \cup {<<a, b>> : a \in {3, 4, 6, 7}, b \in {3, 4, 6, 7}}

\* C33: findValidTp returns the first take-profit in list order strictly on
\* the profitable side of the entry, with a warning iff an earlier one was
\* skipped; if none qualifies and a stop-loss is given, entry +/- |entry -
\* stopLoss| with a warning; if none qualifies and no stop-loss is given, no
\* take-profit with a warning.  Checked for the direction and the entry price
\* of every tracked leg.
C33_FindValidTp ==
    \A m \in DOMAIN state.positions : \A pos \in Legs(state.positions[m]) :
    \A take_profits \in TpLists : \A stop_loss \in {None, 3, 7} :
        LET buy == is_buy(pos.order_type)
            entry == pos.entry_price
            good == {i \in 1..Len(take_profits) :
                        IF buy THEN take_profits[i] > entry
                        ELSE take_profits[i] < entry}
            first == CHOOSE i \in good : \A j \in good : i <= j
            risk == IF entry >= stop_loss THEN entry - stop_loss ELSE stop_loss - entry
            r == build_order_request_tp(buy, entry, take_profits, stop_loss)
        IN  IF good # {}
            THEN r.tp = take_profits[first] /\ (r.warning <=> first > 1)
            ELSE IF stop_loss # None
            THEN r.tp = (IF buy THEN entry + risk ELSE entry - risk) /\ r.warning
            ELSE r.tp = None /\ r.warning

\* ------------------------------------------------------ gateway reconnection

\* The attempt limits MT5Executor is configured with, and the connect()
\* calls whose outcome is drawn: one more than the largest limit.
MaxReconnectAttempts == 2
ConnectHorizon == MaxReconnectAttempts + 1
ConnectOutcomes == [1..ConnectHorizon -> BOOLEAN]

\* MT5Executor._reconnect, lines 167-196: connect() is called once per
\* attempt of range(1, max_reconnect_attempts + 1), connects[i] being the
\* outcome of the i-th call; True at the first that connects, False when the
\* range is used up.
reconnect(max_reconnect_attempts, connects) ==
    LET made == {i \in 1..max_reconnect_attempts : connects[i]}
    IN  IF made = {}
        THEN [ok |-> FALSE, attempts |-> max_reconnect_attempts]
        ELSE [ok |-> TRUE, attempts |-> CHOOSE i \in made : \A j \in made : i <= j]

\* The first connect() of the horizon that connects, 0 when none does.
FirstConnect(connects) ==
    LET made == {i \in 1..ConnectHorizon : connects[i]}
    IN  IF made = {} THEN 0 ELSE CHOOSE i \in made : \A j \in made : i <= j

\* The methods of MT5Executor behind with_reconnect that the bot calls.
WrappedMethods ==
    {"execute_signal", "modify_position", "close_position", "get_position",
     "is_position_profitable", "get_account_balance", "get_current_price"}

\* What a wrapped method returns when it has talked to the gateway.
GatewayAnswers(method) ==
    CASE method \in {"execute_signal", "modify_position", "close_position"} ->
            {"success: True", "success: False, error: retcode"}
      [] method = "get_position" -> {"position", "None"}
      [] method = "is_position_profitable" -> {"True", "False"}
      [] method = "get_account_balance" -> {"balance", "0.0"}
      [] OTHER -> {"price", "None"}

\* with_reconnect, lines 41-53: the value returned when reconnect failed.
FailureValue(method) ==
    CASE method \in {"execute_signal", "modify_position", "close_position"} ->
            "success: False, error: Connection lost and reconnect failed"
      [] method = "get_account_balance" -> "0.0"
      [] method = "get_position" -> "None"
      [] method = "is_position_profitable" -> "False"
      [] OTHER -> "None"

\* with_reconnect, lines 20-55, around one call of a wrapped method.
\* check_ok is the answer of _ensure_connected; first and retry are what the
\* method does when it is invoked, an answer of the gateway or "raise".  The
\* first invocation runs inside try, the one after a reconnect does not.
with_reconnect(method, check_ok, first, max_reconnect_attempts, connects, retry) ==
    IF check_ok /\ first # "raise"
    THEN [invocations |-> 1, attempts |-> 0, reconnected |-> FALSE,
          raised |-> FALSE, result |-> first]
    ELSE LET n == IF check_ok THEN 1 ELSE 0
             r == reconnect(max_reconnect_attempts, connects)
         IN  IF r.ok
             THEN [invocations |-> n + 1, attempts |-> r.attempts, reconnected |-> TRUE,
                   raised |-> retry = "raise",
                   result |-> IF retry = "raise" THEN "exception" ELSE retry]
             ELSE [invocations |-> n, attempts |-> r.attempts, reconnected |-> FALSE,
                   raised |-> FALSE, result |-> FailureValue(method)]

\* C34: after a gateway call failed because the connection is lost, connect
\* is attempted up to the configured limit, a limit of zero meaning that it
\* is attempted until the gateway connects; failure is reported only when
\* the budget is used up.
C34_ReconnectUpToLimit ==
    (phase = "running" /\ connected) =>
        \A limit \in 0..MaxReconnectAttempts : \A connects \in ConnectOutcomes :
            LET r == reconnect(limit, connects)
                k == FirstConnect(connects)
            IN  IF limit = 0
                THEN k # 0 => (r.ok /\ r.attempts = k)
                ELSE /\ r.ok <=> (k # 0 /\ k <= limit)
                     /\ r.ok => r.attempts = k
                     /\ ~r.ok => r.attempts = limit

\* C35: a call through the wrapper invokes the wrapped method at most twice,
\* once if the connection check passes and once more only after a reconnect
\* that succeeded; when reconnect fails the method is not invoked again and
\* the caller gets a failure value that is no exception and that no answer
\* of the gateway equals.
C35_WrapperInvokesAtMostTwice ==
    (phase = "running" /\ connected) =>
        \A method \in WrappedMethods : \A check_ok \in BOOLEAN :
        \A limit \in 0..MaxReconnectAttempts : \A connects \in ConnectOutcomes :
        \A first \in GatewayAnswers(method) \cup {"raise"} :
        \A retry \in GatewayAnswers(method) \cup {"raise"} :
            LET c == with_reconnect(method, check_ok, first, limit, connects, retry)
                lost == ~(check_ok /\ first # "raise")
            IN  /\ c.invocations <= 2
                /\ check_ok => c.invocations >= 1
                /\ c.invocations = (IF check_ok THEN 1 ELSE 0)
                                   + (IF lost /\ c.reconnected THEN 1 ELSE 0)
                /\ (lost /\ ~c.reconnected) =>
                      /\ ~c.raised
                      /\ c.result = FailureValue(method)
                      /\ c.result \notin GatewayAnswers(method)

\* The outcome of every connect() when the gateway stays unreachable.
NoConnect == [i \in 1..ConnectHorizon |-> FALSE]

\* The answers a handler gets while the connection is lost and reconnect
\* fails: every call goes through with_reconnect, get_position gives the
\* wrapper's failure value and the modify / close calls its failure dict.
LostAnswers ==
    LET found == with_reconnect("get_position", FALSE, "position",
                                MaxReconnectAttempts, NoConnect, "position").result
        done  == with_reconnect("modify_position", FALSE, "success: True",
                                MaxReconnectAttempts, NoConnect, "success: True").result
    IN  [OkAnswers EXCEPT !.alive = [slot \in Slots |-> found = "position"],
                          !.ans = [slot \in Slots |-> done = "success: True"],
                          !.price = FALSE,
                          !.profit = AllFalse]

\* C37: a leg's stored status becomes CLOSED only after the gateway confirmed
\* a close of its ticket or reported the ticket not found while connected; a
\* position query that has no answer because the connection is lost and
\* reconnect failed never marks a leg CLOSED.  Checked for a profit
\* notification handled while the gateway is unreachable.
C37_LostConnectionNeverCloses ==
    \A sig \in ProfitSignals, reply_to \in {None} \cup (1..now) :
        LET R == process_message(Current, now + 1, reply_to, sig, <<LostAnswers>>, now + 1)
        IN  \A p \in AllLegs(state), q \in AllLegs(R.state) :
                (p.mt5_ticket = q.mt5_ticket /\ p.status # "closed") =>
                    q.status # "closed"

\* ------------------------------------------------------- status of a leg

\* models.py PositionStatus, lines 37-42, in the order of a leg's life.
StatusRank(status) ==
    CASE status = "pending_completion" -> 0
      [] status = "open" -> 1
      [] OTHER -> 2

EditedStopLoss(signal) ==
    [signal EXCEPT !.stop_loss = IF is_buy(signal.order_type) THEN 3 ELSE 7]

\* C36: an edit event for a message id with no tracked position yet, the
\* original message being still in the hands of the parser, is kept under
\* that message id, and when the position of the message is created the edit
\* is applied to it.  Checked for every new signal in flight: the edit is
\* handled first, then the handler of the original message runs to its end.
C36_EditInFlightIsApplied ==
    \A msg \in inflight :
        (/\ msg.signal.message_type = "new_signal_complete"
         /\ msg.msg_id \notin DOMAIN state.positions) =>
            LET edit == EditedStopLoss(msg.signal)
                C1 == process_edited_message(Current, msg.msg_id, TRUE, edit,
                                             OkAnswers, now)
                R  == process_message(C1, msg.msg_id, msg.reply_to, msg.signal,
                                      <<OkAnswers>>, now + 1)
            IN  msg.msg_id \in DOMAIN R.state.positions =>
                    \A p \in Legs(R.state.positions[msg.msg_id]) :
                        p.stop_loss = edit.stop_loss

====
